---------------------------- MODULE Spec2Model ----------------------------
(***************************************************************************)
(* Evaluation model of the opening_hours rule engine (opening_hours.go).   *)
(*                                                                         *)
(* A parsed OpeningHours value is a record of primary rules, fallback      *)
(* groups and the attached oracles.  An instant (time.Time) is the number  *)
(* of seconds since 2024-01-01 00:00:00 UTC, a Monday; the zero time is    *)
(* ZeroTime.  Every query is an operator translated from the Go function   *)
(* of the same name, and an action of the state machine applies it to an   *)
(* instant and records the result.  Queries running in parallel on one     *)
(* value are calls, one per goroutine, each with its position in the       *)
(* query and the slots of the backing array of oh.rules it read and wrote. *)
(* An Iterator over the value is the record it, Nil before GetIterator.    *)
(* scan holds the arguments, locals and result of a query whose loop is    *)
(* run one iteration at a time; op is "running" while it is.               *)
(***************************************************************************)
EXTENDS Integers, Sequences, FiniteSets, TLC

VARIABLES oh, op, arg, res, calls, it, scan

vars == <<oh, op, arg, res, calls, it, scan>>

-----------------------------------------------------------------------------
(* Bounds of the model.                                                    *)

\* number of ';'-separated parts of the primary group
MaxParts == 3
\* number of '||' groups after the primary group
MaxFallbackGroups == 2
\* days (from the epoch) the queried instants are drawn from
MaxDays == 3
\* goroutines querying one value
MaxThreads == 2

-----------------------------------------------------------------------------
(* Program constants.                                                      *)

StateOpen == 0
StateClosed == 1
StateUnknown == 2

defaultSunrise == 360
defaultSunset == 1080
defaultDawn == 330
defaultDusk == 1110

\* the day loop of GetNextChange: for day := 0; day < 36; day++
SearchDays == 36
\* IsEqualTo: the reference Monday 2024-01-01 00:00 UTC, seven days sampled
\* every 15 minutes (in seconds)
SampleStart == 0
SampleDuration == 604800
SampleInterval == 900
\* the safety limit of GetNextChangeWithMaxDate on the days searched
SafetyDays == 365
\* the days the minute-by-minute loop of findNextChange covers
ScanDays == 35

\* time.Time{} (IsZero)
ZeroTime == -1

-----------------------------------------------------------------------------
(* time.Time: calendar arithmetic on seconds since the epoch.              *)

EpochYear == 2024

DayIndex(t) == t \div 86400
Hour(t) == (t \div 3600) % 24
Minute(t) == (t \div 60) % 60
MinuteOfDay(t) == Hour(t) * 60 + Minute(t)
\* time.Date(y, m, d, minute/60, minute%60, 0, 0, loc) for the date of day
\* index d; a minute past 1440 normalises into the next day
DateAt(d, minute) == d * 86400 + minute * 60
\* t.AddDate(0, 0, n)
AddDays(t, n) == t + n * 86400
\* t.Weekday(): Sunday = 0; the epoch is a Monday
Weekday(t) == (DayIndex(t) + 1) % 7

IsLeap(y) == (y % 4 = 0 /\ y % 100 # 0) \/ y % 400 = 0
YearLen(y) == IF IsLeap(y) THEN 366 ELSE 365
DaysInMonth(y, m) ==
    IF m = 2 THEN (IF IsLeap(y) THEN 29 ELSE 28)
    ELSE IF m \in {4, 6, 9, 11} THEN 30 ELSE 31

\* leap years before year y
leapsBefore(y) == ((y - 1) \div 4) - ((y - 1) \div 100) + ((y - 1) \div 400)

\* days from the epoch to January 1 of year y (y >= EpochYear)
daysBeforeYear(y) == 365 * (y - EpochYear) + leapsBefore(y) - leapsBefore(EpochYear)

\* days from January 1 to the first of month m in a common year
cumDays == <<0, 31, 59, 90, 120, 151, 181, 212, 243, 273, 304, 334>>

daysBeforeMonth(y, m) == cumDays[m] + (IF m > 2 /\ IsLeap(y) THEN 1 ELSE 0)

\* day index of the date y-m-d (y >= EpochYear)
DayIndexOf(y, m, d) == daysBeforeYear(y) + daysBeforeMonth(y, m) + d - 1

\* the year of day index d, given the year y0 that 366-day years would give
yearFrom(d, y0) == IF d >= daysBeforeYear(y0 + 1) THEN y0 + 1 ELSE y0

yearOfDay(d) == yearFrom(d, EpochYear + (d \div 366))

\* the month holding day yd (from 0) of year y
monthOf(y, yd) ==
    CHOOSE x \in 1..12 :
        /\ daysBeforeMonth(y, x) <= yd
        /\ (x = 12 \/ yd < daysBeforeMonth(y, x + 1))

civilRecord(y, yd, m) ==
    [year |-> y, month |-> m, day |-> yd - daysBeforeMonth(y, m) + 1, yday |-> yd]

civilOfYearDay(y, yd) == civilRecord(y, yd, monthOf(y, yd))

civilOfDay(d, y) == civilOfYearDay(y, d - daysBeforeYear(y))

\* t.Year(), t.Month(), t.Day(), t.YearDay()-1 of an instant at or after the epoch
Civil(t) == civilOfDay(DayIndex(t), yearOfDay(DayIndex(t)))

\* t.ISOWeek(): the week of the Thursday of t's week
ISOWeek(t) ==
    (Civil((DayIndex(t) + 3 - ((Weekday(t) + 6) % 7)) * 86400).yday \div 7) + 1

\* Easter Sunday of a year as a day index (anonymous Gregorian algorithm)
calculateEaster(year) ==
    LET a == year % 19
        b == year \div 100
        c == year % 100
        d == b \div 4
        e == b % 4
        f == (b + 8) \div 25
        g == (b - f + 1) \div 3
        h == (19 * a + b - d - g + 15) % 30
        i == c \div 4
        k == c % 4
        l == (32 + 2 * e + 2 * i - h - k) % 7
        m == (a + 11 * h + 22 * l) \div 451
        month == (h + l - 7 * m + 114) \div 31
        day == ((h + l - 7 * m + 114) % 31) + 1
    IN DayIndexOf(year, month, day)

nthWeekdayOfMonth(t) == ((Civil(t).day - 1) \div 7) + 1

\* the count for the date c of t
nthFromEndOf(c) == ((DaysInMonth(c.year, c.month) - c.day) \div 7) + 1

nthWeekdayFromEnd(t) == nthFromEndOf(Civil(t))

-----------------------------------------------------------------------------
(* Oracles.  A holiday checker is NoChecker (a nil interface) or a record  *)
(* holding the set of day indices it reports as holidays.                  *)

NoChecker == [set |-> FALSE, days |-> {}]
CheckerOf(days) == [set |-> TRUE, days |-> days]

IsHoliday(hc, t) == DayIndex(t) \in hc.days
IsSchoolHoliday(shc, t) == DayIndex(t) \in shc.days

-----------------------------------------------------------------------------
(* The data model: rule, timeRange, weekdayConstraint, weekConstraint.     *)
(* weekdays is <<>> (a nil slice) or a 7-tuple of booleans, Sunday first.  *)

NoCoordinates == [set |-> FALSE, sunrise |-> 0, sunset |-> 0, dawn |-> 0, dusk |-> 0]

\* r.weekdays[wd] for wd in 0..6
wdBit(r, wd) == r.weekdays[wd + 1]

\* rule{state: StateOpen}: the zero value of the struct
ZeroRule ==
    [weekdays |-> <<>>, weekdayConstraints |-> <<>>, weekConstraints |-> <<>>,
     timeRanges |-> <<>>, state |-> StateOpen, comment |-> "",
     yearStart |-> 0, yearEnd |-> 0, yearInterval |-> 0,
     monthStart |-> 0, monthEnd |-> 0, dayStart |-> 0, dayEnd |-> 0,
     dayInterval |-> 0, isPH |-> FALSE, isSH |-> FALSE, phOffset |-> 0,
     isEaster |-> FALSE, easterOffset |-> 0, isEasterRange |-> FALSE,
     easterOffsetEnd |-> 0, ruleGroup |-> 0]

\* timeRange{start: s, end: e}
FixedRange(s, e) ==
    [start |-> s, end |-> e, openEnd |-> FALSE, startVar |-> "", endVar |-> "",
     startOffset |-> 0, endOffset |-> 0, interval |-> 0]

-----------------------------------------------------------------------------
(* Selector and time-range evaluation.                                     *)

resolveVariableTime(o, t, varType, offset) ==
    LET baseTime ==
            IF o.coordinates.set
            THEN (CASE varType = "sunrise" -> o.coordinates.sunrise
                    [] varType = "sunset" -> o.coordinates.sunset
                    [] varType = "dawn" -> o.coordinates.dawn
                    [] varType = "dusk" -> o.coordinates.dusk
                    [] OTHER -> defaultSunrise)
            ELSE (CASE varType = "sunrise" -> defaultSunrise
                    [] varType = "sunset" -> defaultSunset
                    [] varType = "dawn" -> defaultDawn
                    [] varType = "dusk" -> defaultDusk
                    [] OTHER -> defaultSunrise)
    IN (baseTime + offset) % 1440

isOffsetHolidayDay(t, hc, rules) ==
    /\ hc.set
    /\ \E i \in 1..Len(rules) :
          /\ rules[i].isPH
          /\ rules[i].phOffset # 0
          /\ IsHoliday(hc, AddDays(t, -rules[i].phOffset))
          /\ ~IsHoliday(hc, t)

\* the year clause: false is the early "return false"
yearIn(r, year) ==
    /\ ~(year < r.yearStart \/ year > r.yearEnd)
    /\ (r.yearInterval > 0 => (year - r.yearStart) % r.yearInterval = 0)

yearInRange(r, t) == r.yearStart > 0 => yearIn(r, Civil(t).year)

\* the Easter clause: the date of t is the target date, or lies in the range
easterIn(r, t, easterDate) ==
    IF r.isEasterRange
    THEN /\ ~(DayIndex(t) < easterDate + r.easterOffset)
         /\ ~(DayIndex(t) > easterDate + r.easterOffsetEnd)
    ELSE DayIndex(t) = easterDate + r.easterOffset

easterInRange(r, t) == easterIn(r, t, calculateEaster(Civil(t).year))

\* the month/day clause (r.monthStart > 0)
monthDayIn(r, month, day) ==
       IF r.dayStart > 0
       THEN IF r.monthStart = r.monthEnd
            THEN /\ month = r.monthStart /\ day >= r.dayStart /\ day <= r.dayEnd
                 /\ (r.dayInterval > 0 => (day - r.dayStart) % r.dayInterval = 0)
            ELSE IF r.monthStart < r.monthEnd
            THEN \/ (month > r.monthStart /\ month < r.monthEnd)
                 \/ (month = r.monthStart /\ day >= r.dayStart)
                 \/ (month = r.monthEnd /\ day <= r.dayEnd)
            ELSE \/ (month > r.monthStart \/ month < r.monthEnd)
                 \/ (month = r.monthStart /\ day >= r.dayStart)
                 \/ (month = r.monthEnd /\ day <= r.dayEnd)
       ELSE IF r.monthStart = r.monthEnd
            THEN month = r.monthStart
            ELSE IF r.monthStart < r.monthEnd
            THEN month >= r.monthStart /\ month <= r.monthEnd
            ELSE month >= r.monthStart \/ month <= r.monthEnd

monthDayInRange(r, t) == monthDayIn(r, Civil(t).month, Civil(t).day)

\* the week-number clause (len(r.weekConstraints) > 0)
weekIn(wc, week) ==
    IF wc.weekStart = wc.weekEnd
    THEN week = wc.weekStart
    ELSE /\ week >= wc.weekStart /\ week <= wc.weekEnd
         /\ (wc.weekInterval > 0 => (week - wc.weekStart) % wc.weekInterval = 0)

weekInRange(r, t) ==
    \E i \in 1..Len(r.weekConstraints) : weekIn(r.weekConstraints[i], ISOWeek(t))

\* the ordinal-weekday clause: the value of constraintMatched after the loop
constraintIn(c, t, nthFromStart, nthFromEnd) ==
          /\ c.weekday = Weekday(t)
          /\ IF c.nthFrom > 0
             THEN IF c.nthTo = 0
                  THEN nthFromStart = c.nthFrom
                  ELSE nthFromStart >= c.nthFrom /\ nthFromStart <= c.nthTo
             ELSE IF c.nthTo = 0
                  THEN nthFromEnd = -c.nthFrom
                  ELSE nthFromEnd >= -c.nthTo /\ nthFromEnd <= -c.nthFrom

constraintMatched(r, t) ==
    \E i \in 1..Len(r.weekdayConstraints) :
       constraintIn(r.weekdayConstraints[i], t, nthWeekdayOfMonth(t), nthWeekdayFromEnd(t))

matchesSelectorWithOH(r, t, hc, o) ==
    IF /\ r.weekdays = <<>> /\ ~r.isPH /\ ~r.isSH /\ ~r.isEaster
       /\ r.monthStart = 0 /\ r.yearStart = 0 /\ Len(r.weekConstraints) = 0
       /\ Len(r.weekdayConstraints) = 0
    THEN FALSE
    ELSE IF ~yearInRange(r, t) THEN FALSE
    ELSE IF r.isEaster THEN easterInRange(r, t)
    ELSE IF r.isSH THEN o.schoolHolidayChecker.set /\ IsSchoolHoliday(o.schoolHolidayChecker, t)
    ELSE IF r.isPH THEN hc.set /\ IsHoliday(hc, t)
    ELSE IF r.monthStart > 0 /\ ~monthDayInRange(r, t) THEN FALSE
    ELSE IF Len(r.weekConstraints) > 0 /\ ~weekInRange(r, t) THEN FALSE
    ELSE IF Len(r.weekdayConstraints) > 0 THEN constraintMatched(r, t)
    ELSE IF r.weekdays # <<>> THEN wdBit(r, Weekday(t))
    ELSE TRUE

\* the time-range loop with the after-midnight part of a midnight-spanning
\* range tested against today's weekday instead of yesterday's
timeRangeMatches_SameDayTail(r, tr, t, o, cm) ==
    /\ r.weekdays # <<>> => wdBit(r, Weekday(t))
    /\ IF tr.end <= tr.start
       THEN MinuteOfDay(t) >= tr.start \/ MinuteOfDay(t) < tr.end
       ELSE MinuteOfDay(t) >= tr.start /\ MinuteOfDay(t) < tr.end

\* one iteration of the time-range loop of matchesWithOH: TRUE is "return true"
timeRangeMatches(r, tr, t, o, cm) ==
    LET minuteOfDay == MinuteOfDay(t)
        trStart == IF tr.startVar # "" THEN resolveVariableTime(o, t, tr.startVar, tr.startOffset)
                   ELSE tr.start
        trEnd0 == IF tr.endVar # "" THEN resolveVariableTime(o, t, tr.endVar, tr.endOffset)
                  ELSE tr.end
        extendedHours == trEnd0 > 1440
        spansMidnight == trEnd0 <= trStart \/ extendedHours
        trEnd == IF extendedHours THEN trEnd0 - 1440 ELSE trEnd0
        weekday == Weekday(t)
        prevWeekday == (weekday + 6) % 7
    IN IF spansMidnight
       THEN IF r.weekdays # <<>> /\ ~cm
            THEN \/ (wdBit(r, weekday) /\ minuteOfDay >= trStart)
                 \/ (wdBit(r, prevWeekday) /\ minuteOfDay < trEnd)
            ELSE minuteOfDay >= trStart \/ minuteOfDay < trEnd
       ELSE IF r.weekdays # <<>> /\ ~cm /\ ~wdBit(r, weekday)
            THEN FALSE
            ELSE /\ minuteOfDay >= trStart /\ minuteOfDay < trEnd
                 /\ (tr.interval > 0 =>
                        ((minuteOfDay - trStart) \div tr.interval) % 2 = 0)

matchesWithOH(r, t, hc, o) ==
    IF ~yearInRange(r, t) THEN FALSE
    ELSE IF r.isEaster /\ ~easterInRange(r, t) THEN FALSE
    ELSE IF r.isEaster /\ r.isEasterRange /\ Len(r.timeRanges) = 0 THEN TRUE
    ELSE IF r.isSH /\ ~(o.schoolHolidayChecker.set /\ IsSchoolHoliday(o.schoolHolidayChecker, t))
         THEN FALSE
    ELSE IF ~r.isSH /\ o.schoolHolidayChecker.set /\ IsSchoolHoliday(o.schoolHolidayChecker, t)
         THEN FALSE
    ELSE IF r.isPH /\ ~hc.set THEN FALSE
    ELSE IF r.isPH /\ r.phOffset = 0 /\ ~IsHoliday(hc, t) THEN FALSE
    ELSE IF r.isPH /\ r.phOffset # 0
            /\ (~IsHoliday(hc, AddDays(t, -r.phOffset)) \/ IsHoliday(hc, t))
         THEN FALSE
    ELSE IF ~r.isPH /\ hc.set /\ IsHoliday(hc, t) THEN FALSE
    ELSE IF ~r.isPH /\ isOffsetHolidayDay(t, hc, o.rules) THEN FALSE
    ELSE IF r.monthStart > 0 /\ ~monthDayInRange(r, t) THEN FALSE
    ELSE IF Len(r.weekConstraints) > 0 /\ ~weekInRange(r, t) THEN FALSE
    ELSE LET cm == Len(r.weekdayConstraints) > 0 /\ constraintMatched(r, t)
         IN IF Len(r.weekdayConstraints) > 0 /\ ~cm THEN FALSE
            ELSE IF Len(r.weekdayConstraints) > 0 /\ Len(r.timeRanges) = 0 THEN TRUE
            ELSE IF Len(r.timeRanges) = 0
                 THEN (IF r.weekdays # <<>> THEN wdBit(r, Weekday(t)) ELSE TRUE)
            ELSE \E k \in 1..Len(r.timeRanges) :
                    timeRangeMatches(r, r.timeRanges[k], t, o, cm)

-----------------------------------------------------------------------------
(* The composition engine: GetState and its helpers.                       *)

SetMin(S) == CHOOSE x \in S : \A y \in S : x <= y

SetMax(S) == CHOOSE x \in S : \A y \in S : x >= y

hasSameSelector(r1, r2) ==
    \/ /\ r1.weekdays # <<>> /\ r2.weekdays # <<>>
       /\ \A i \in 0..6 : wdBit(r1, i) = wdBit(r2, i)
       /\ r1.monthStart = r2.monthStart /\ r1.monthEnd = r2.monthEnd
    \/ /\ r1.weekdays = <<>> /\ r2.weekdays = <<>>
       /\ r1.monthStart = r2.monthStart /\ r1.monthEnd = r2.monthEnd
       /\ r1.dayStart = r2.dayStart /\ r1.dayEnd = r2.dayEnd

\* the rules of group g that can be prevDayRule: previous weekday listed and
\* a midnight-spanning first time range
prevDayCandidates(o, g, prevWeekday) ==
    {i \in 1..Len(o.rules) :
        /\ o.rules[i].ruleGroup = g
        /\ o.rules[i].weekdays # <<>>
        /\ wdBit(o.rules[i], prevWeekday)
        /\ Len(o.rules[i].timeRanges) > 0
        /\ o.rules[i].timeRanges[1].end <= o.rules[i].timeRanges[1].start}

\* GetState without the continuation check
checkExtendedMidnightContinuation_Never(o, t) == FALSE

checkExtendedMidnightContinuation(o, t) ==
    LET minuteOfDay == MinuteOfDay(t)
        weekday == Weekday(t)
        prevWeekday == (weekday + 6) % 7
        groups == {o.rules[i].ruleGroup : i \in 1..Len(o.rules)} \ {0}
    IN \E g \in groups :
          LET cands == prevDayCandidates(o, g, prevWeekday)
          IN /\ cands # {}
             /\ LET prevDayEndTime == o.rules[SetMin(cands)].timeRanges[1].end
                IN \E i \in 1..Len(o.rules) :
                      LET r == o.rules[i]
                      IN /\ r.ruleGroup = g
                         /\ r.weekdays # <<>>
                         /\ wdBit(r, weekday)
                         /\ Len(r.timeRanges) > 0
                         /\ r.timeRanges[1].end > prevDayEndTime
                         /\ minuteOfDay < r.timeRanges[1].end

\* fallbackGroupScan with the break on an Unknown match turned into a continue:
\* the scan goes on to the lower-index rules of the same group
RECURSIVE fallbackGroupScan_ContinuesPastUnknown(_, _, _, _)
fallbackGroupScan_ContinuesPastUnknown(o, t, group, i) ==
    IF i = 0 THEN "none"
    ELSE IF /\ matchesWithOH(group[i], t, o.holidayChecker, o)
            /\ group[i].state # StateUnknown
         THEN (IF group[i].state = StateOpen THEN "open" ELSE "closed")
         ELSE fallbackGroupScan_ContinuesPastUnknown(o, t, group, i - 1)

\* the reverse scan of one fallback group from index i down: the modifier of
\* the first matching rule, or "none"
RECURSIVE fallbackGroupScan(_, _, _, _)
fallbackGroupScan(o, t, group, i) ==
    IF i = 0 THEN "none"
    ELSE IF matchesWithOH(group[i], t, o.holidayChecker, o)
         THEN (IF group[i].state = StateUnknown THEN "unknown"
               ELSE IF group[i].state = StateOpen THEN "open" ELSE "closed")
         ELSE fallbackGroupScan(o, t, group, i - 1)

\* the loop over the fallback groups from group g on: the first definite
\* answer, or "none" when the loop runs out
RECURSIVE fallbackScan(_, _, _)
fallbackScan(o, t, g) ==
    IF g > Len(o.fallbackGroups) THEN "none"
    ELSE LET a == fallbackGroupScan(o, t, o.fallbackGroups[g], Len(o.fallbackGroups[g]))
         IN IF a \in {"open", "closed"} THEN a ELSE fallbackScan(o, t, g + 1)

getStateFromFallback(o, t) == fallbackScan(o, t, 1) = "open"

getUnknownFromFallback(o, t) ==
    IF fallbackScan(o, t, 1) \in {"open", "closed"} THEN FALSE ELSE FALSE

getStateStringFromFallback(o, t) ==
    LET a == fallbackScan(o, t, 1)
    IN IF a \in {"open", "closed"} THEN a ELSE "closed"

\* the reverse scan of GetState from rule i down; overriding is the index of
\* overridingRule (0 when nil), groups is selectorMatchedGroups
RECURSIVE primaryScan(_, _, _, _, _)
primaryScan(o, t, i, overriding, groups) ==
    IF i = 0
    THEN IF overriding # 0 THEN FALSE
         ELSE IF groups # {} THEN FALSE
         ELSE IF Len(o.fallbackGroups) > 0 THEN getStateFromFallback(o, t)
         ELSE FALSE
    ELSE LET r == o.rules[i]
         IN IF matchesWithOH(r, t, o.holidayChecker, o)
            THEN IF r.state = StateUnknown THEN getStateFromFallback(o, t)
                 ELSE IF overriding # 0 /\ ~hasSameSelector(o.rules[overriding], r)
                 THEN FALSE
                 ELSE r.state = StateOpen
            ELSE IF /\ r.state = StateOpen /\ Len(r.timeRanges) > 0
                    /\ matchesSelectorWithOH(r, t, o.holidayChecker, o)
                 THEN IF r.ruleGroup > 0
                      THEN primaryScan(o, t, i - 1, overriding, groups \cup {r.ruleGroup})
                      ELSE primaryScan(o, t, i - 1,
                                       IF overriding = 0 THEN i ELSE overriding, groups)
                 ELSE primaryScan(o, t, i - 1, overriding, groups)

\* GetState without the overridingRule bookkeeping: the highest-index rule
\* that matches on selector and time decides alone
GetState_FirstMatchWins(o, t) ==
    IF checkExtendedMidnightContinuation(o, t) THEN TRUE
    ELSE LET m == {i \in 1..Len(o.rules) :
                      matchesWithOH(o.rules[i], t, o.holidayChecker, o)}
         IN IF m = {} THEN Len(o.fallbackGroups) > 0 /\ getStateFromFallback(o, t)
            ELSE IF o.rules[SetMax(m)].state = StateUnknown
                 THEN getStateFromFallback(o, t)
                 ELSE o.rules[SetMax(m)].state = StateOpen

\* GetState that sends a closed answer of the primary rules to the fallback
\* groups, as it does an unknown one
GetState_ClosedFallsBack(o, t) ==
    IF checkExtendedMidnightContinuation(o, t) THEN TRUE
    ELSE primaryScan(o, t, Len(o.rules), 0, {}) \/ getStateFromFallback(o, t)

GetState(o, t) ==
    IF checkExtendedMidnightContinuation(o, t) THEN TRUE
    ELSE primaryScan(o, t, Len(o.rules), 0, {})

\* the indices of the primary rules that match on selector and time
matchingRules(o, t) ==
    {i \in 1..Len(o.rules) : matchesWithOH(o.rules[i], t, o.holidayChecker, o)}

\* GetMatchingRule, 1-based; 0 when no rule matches (the Go value is one less)
GetMatchingRule(o, t) ==
    IF matchingRules(o, t) = {} THEN 0 ELSE SetMax(matchingRules(o, t))

GetUnknown(o, t) ==
    LET i == GetMatchingRule(o, t)
    IN IF i # 0
       THEN IF o.rules[i].state = StateUnknown
            THEN (IF Len(o.fallbackGroups) = 0 THEN TRUE
                  ELSE getUnknownFromFallback(o, t))
            ELSE FALSE
       ELSE IF Len(o.fallbackGroups) > 0 THEN getUnknownFromFallback(o, t)
       ELSE FALSE

GetStateString(o, t) ==
    LET i == GetMatchingRule(o, t)
    IN IF i # 0
       THEN IF o.rules[i].state = StateUnknown THEN getStateStringFromFallback(o, t)
            ELSE IF o.rules[i].state = StateOpen THEN "open" ELSE "closed"
       ELSE "closed"

-----------------------------------------------------------------------------
(* GetNextChange.                                                          *)

\* the guard left out: every boundary of the first day counts
afterStart_Always(minute, startMinute, day) == TRUE

\* the guard of every insertion into transitions: a boundary of the first
\* day counts only when it lies after the start minute
afterStart(minute, startMinute, day) == minute > startMinute \/ day > 0

\* the boundaries one rule contributes to the transitions of the day of
\* searchTime
ruleTransitions(o, r, searchTime, startMinute, day) ==
    LET weekday == Weekday(searchTime)
        prevWeekday == (weekday + 6) % 7
        trs == {r.timeRanges[k] : k \in 1..Len(r.timeRanges)}
        startOf(tr) == IF tr.startVar # ""
                       THEN resolveVariableTime(o, searchTime, tr.startVar, tr.startOffset)
                       ELSE tr.start
        endOf(tr) == IF tr.endVar # ""
                     THEN resolveVariableTime(o, searchTime, tr.endVar, tr.endOffset)
                     ELSE tr.end
        today ==
            IF r.weekdays # <<>> /\ wdBit(r, weekday)
            THEN {startOf(tr) : tr \in {x \in trs : afterStart(startOf(x), startMinute, day)}}
                 \cup {endOf(tr) : tr \in {x \in trs :
                          endOf(x) > startOf(x) /\ afterStart(endOf(x), startMinute, day)}}
            ELSE {}
        yesterday ==
            IF r.weekdays # <<>> /\ wdBit(r, prevWeekday)
            THEN {endOf(tr) : tr \in {x \in trs :
                     endOf(x) <= x.start /\ afterStart(endOf(x), startMinute, day)}}
            ELSE {}
        everyDay ==
            IF r.weekdays = <<>>
            THEN {startOf(tr) : tr \in {x \in trs : afterStart(startOf(x), startMinute, day)}}
                 \cup {endOf(tr) : tr \in {x \in trs : afterStart(endOf(x), startMinute, day)}}
            ELSE {}
    IN today \cup yesterday \cup everyDay

\* the keys of the transitions map collected for one day
dayTransitions(o, searchTime, startMinute, day) ==
    UNION {ruleTransitions(o, o.rules[i], searchTime, startMinute, day) :
              i \in 1..Len(o.rules)}

\* the day loop from iteration day on; t is the instant asked about
RECURSIVE nextChangeSearch(_, _, _, _)
nextChangeSearch(o, t, currentState, day) ==
    IF day >= SearchDays THEN ZeroTime
    ELSE LET searchTime == IF day = 0 THEN t ELSE DateAt(DayIndex(t) + day, 0)
             startMinute == IF day = 0 THEN MinuteOfDay(t) ELSE 0
             sortedTimes == dayTransitions(o, searchTime, startMinute, day)
             changed == {minute \in sortedTimes :
                            GetState(o, DateAt(DayIndex(searchTime), minute)) # currentState}
         IN IF changed # {}
            THEN DateAt(DayIndex(searchTime), SetMin(changed))
            ELSE nextChangeSearch(o, t, currentState, day + 1)

\* the shortcut for a single rule without weekdays and without time ranges
isConstantValue(o) ==
    /\ Len(o.rules) = 1
    /\ o.rules[1].weekdays = <<>>
    /\ Len(o.rules[1].timeRanges) = 0

GetNextChange(o, t) ==
    IF isConstantValue(o) THEN ZeroTime
    ELSE nextChangeSearch(o, t, GetState(o, t), 0)

-----------------------------------------------------------------------------
(* IsWeekStable.                                                           *)

\* allRules: the primary rules followed by the rules of the fallback groups
RECURSIVE appendGroups(_, _, _)
appendGroups(allRules, fallbackGroups, g) ==
    IF g > Len(fallbackGroups) THEN allRules
    ELSE appendGroups(allRules \o fallbackGroups[g], fallbackGroups, g + 1)

\* one iteration of the loop over allRules: FALSE is "return false"
stableRule(r) ==
    /\ ~(r.monthStart > 0 /\ ~(r.monthStart = 1 /\ r.monthEnd = 12))
    /\ ~(r.yearStart > 0)
    /\ ~(Len(r.weekConstraints) > 0)
    /\ ~(Len(r.weekdayConstraints) > 0)
    /\ ~r.isPH
    /\ ~r.isSH
    /\ ~r.isEaster

allStable(allRules) == \A i \in 1..Len(allRules) : stableRule(allRules[i])

IsWeekStable(o) == allStable(appendGroups(o.rules, o.fallbackGroups, 1))

-----------------------------------------------------------------------------
(* GetNextChangeWithMaxDate.                                               *)

\* the whole days between t and maxdate without the day added to them
maxDaysOf_WholeDays(t, maxdate) ==
    IF maxdate >= t THEN (maxdate - t) \div 86400 ELSE -((t - maxdate) \div 86400)

\* int(maxdate.Sub(t).Hours()/24) + 1: the conversion truncates toward zero
maxDaysOf(t, maxdate) ==
    LET whole == IF maxdate >= t THEN (maxdate - t) \div 86400
                 ELSE -((t - maxdate) \div 86400)
    IN IF whole + 1 > SafetyDays THEN SafetyDays ELSE whole + 1

\* the limit test left out: no boundary counts as past maxdate
pastMaxDate_Never(checkTime, maxdate) == FALSE

\* checkTime.After(maxdate)
pastMaxDate(checkTime, maxdate) == checkTime > maxdate

\* the loop over sortedTimes, given the minutes at which it returns: zero
\* when the first of them lies past maxdate, else that boundary
firstStop(d, stops, maxdate) ==
    IF pastMaxDate(DateAt(d, SetMin(stops)), maxdate) THEN ZeroTime
    ELSE DateAt(d, SetMin(stops))

\* the minutes of sortedTimes at which the loop returns
stopMinutes(o, d, sortedTimes, maxdate, currentState) ==
    {minute \in sortedTimes :
        \/ pastMaxDate(DateAt(d, minute), maxdate)
        \/ GetState(o, DateAt(d, minute)) # currentState}

\* one iteration of the day loop; searchTime and startMinute are those of
\* the iteration
RECURSIVE maxDateSearch(_, _, _, _, _, _)
maxDateDay(o, t, maxdate, currentState, day, maxDays, searchTime, startMinute) ==
    IF searchTime > maxdate /\ day > 0 THEN ZeroTime
    ELSE IF stopMinutes(o, DayIndex(searchTime),
                        dayTransitions(o, searchTime, startMinute, day),
                        maxdate, currentState) # {}
    THEN firstStop(DayIndex(searchTime),
                   stopMinutes(o, DayIndex(searchTime),
                               dayTransitions(o, searchTime, startMinute, day),
                               maxdate, currentState),
                   maxdate)
    ELSE maxDateSearch(o, t, maxdate, currentState, day + 1, maxDays)

\* the day loop from iteration day on
maxDateSearch(o, t, maxdate, currentState, day, maxDays) ==
    IF day >= maxDays + 1 THEN ZeroTime
    ELSE maxDateDay(o, t, maxdate, currentState, day, maxDays,
                    IF day = 0 THEN t ELSE DateAt(DayIndex(t) + day, 0),
                    IF day = 0 THEN MinuteOfDay(t) ELSE 0)

GetNextChangeWithMaxDate(o, t, maxdate) ==
    IF isConstantValue(o) THEN ZeroTime
    ELSE maxDateSearch(o, t, maxdate, GetState(o, t), 0, maxDaysOf(t, maxdate))

-----------------------------------------------------------------------------
(* GetComment, GetOpenDuration and GetOpenIntervals.                       *)

\* the fallback groups that have a rule matching on selector and time
matchingGroups(o, t) ==
    {g \in 1..Len(o.fallbackGroups) :
        \E i \in 1..Len(o.fallbackGroups[g]) :
            matchesWithOH(o.fallbackGroups[g][i], t, o.holidayChecker, o)}

\* the highest-index matching rule of fallback group g
topOfGroup(o, t, g) ==
    SetMax({i \in 1..Len(o.fallbackGroups[g]) :
               matchesWithOH(o.fallbackGroups[g][i], t, o.holidayChecker, o)})

getCommentFromFallback(o, t) ==
    IF matchingGroups(o, t) = {} THEN ""
    ELSE o.fallbackGroups[SetMin(matchingGroups(o, t))]
            [topOfGroup(o, t, SetMin(matchingGroups(o, t)))].comment

GetComment(o, t) ==
    IF GetMatchingRule(o, t) # 0 THEN o.rules[GetMatchingRule(o, t)].comment
    ELSE IF Len(o.fallbackGroups) > 0 THEN getCommentFromFallback(o, t)
    ELSE ""

\* the number of iterations of "for current.Before(to)" with one-minute steps
minuteSteps(from, to) == IF from < to THEN (to - from + 59) \div 60 ELSE 0

\* durations are in seconds
GetOpenDuration(o, from, to) ==
    [open |-> 60 * Cardinality({k \in 0..(minuteSteps(from, to) - 1) :
                                   GetState(o, from + 60 * k)}),
     unknown |-> 60 * Cardinality({k \in 0..(minuteSteps(from, to) - 1) :
                                      /\ ~GetState(o, from + 60 * k)
                                      /\ GetUnknown(o, from + 60 * k)})]

\* the three answers findNextChange compares
answersAt(o, t) == <<GetState(o, t), GetUnknown(o, t), GetComment(o, t)>>

\* the bounds of the time ranges of a rule and of a rule list, as minutes of
\* the day
rangeBounds(r) ==
    UNION {{r.timeRanges[k].start % 1440, r.timeRanges[k].end % 1440} :
              k \in 1..Len(r.timeRanges)}

boundsOf(rules) == UNION {rangeBounds(rules[i]) : i \in 1..Len(rules)}

\* the minutes of the day at which the answers can differ from those of the
\* minute before: midnight and the bounds of the time ranges of all rules
scanMinutes(o) ==
    {0} \cup boundsOf(o.rules)
        \cup UNION {boundsOf(o.fallbackGroups[g]) : g \in 1..Len(o.fallbackGroups)}

\* the checkTime of the minute-by-minute loop that falls on minute m of day d
scanTime(t, d, m) == DateAt(d, m) + (t % 60)

\* the minutes of day d at which the minute-by-minute loop would return
scanChanges(o, t, current, d) ==
    {m \in scanMinutes(o) :
        /\ scanTime(t, d, m) > t
        /\ scanTime(t, d, m) < t + ScanDays * 86400
        /\ answersAt(o, scanTime(t, d, m)) # current}

\* the minute-by-minute loop of findNextChange from day on.  Between two
\* consecutive minutes of scanMinutes the answers do not change, so the loop
\* returns at one of them; only these are visited
RECURSIVE minuteScan(_, _, _, _)
minuteScan(o, t, current, day) ==
    IF day > ScanDays THEN ZeroTime
    ELSE IF scanChanges(o, t, current, DayIndex(t) + day) # {}
    THEN scanTime(t, DayIndex(t) + day, SetMin(scanChanges(o, t, current, DayIndex(t) + day)))
    ELSE minuteScan(o, t, current, day + 1)

\* findNextChange after the shortcut, given the result of GetNextChange
verifiedChange(o, t, current, nextChange) ==
    IF nextChange # ZeroTime /\ answersAt(o, nextChange) # current THEN nextChange
    ELSE minuteScan(o, t, current, 0)

findNextChange(o, t) ==
    IF isConstantValue(o) THEN ZeroTime
    ELSE verifiedChange(o, t, answersAt(o, t), GetNextChange(o, t))

\* the interval end without the clamp to 'to'
intervalEndOf_Unclamped(nextChange, to) ==
    IF nextChange = ZeroTime THEN to ELSE nextChange

\* intervalEnd of an open or unknown interval
intervalEndOf(nextChange, to) ==
    IF nextChange = ZeroTime THEN to
    ELSE IF nextChange > to THEN to
    ELSE nextChange

Interval(start, end, unknown, comment) ==
    [Start |-> start, End |-> end, Unknown |-> unknown, Comment |-> comment]

\* one iteration of the loop of GetOpenIntervals, given the result of
\* findNextChange(current)
RECURSIVE intervalLoop(_, _, _)
intervalStep(o, current, to, nextChange) ==
    IF GetState(o, current) \/ GetUnknown(o, current)
    THEN <<Interval(current, intervalEndOf(nextChange, to),
                    GetUnknown(o, current), GetComment(o, current))>>
             \o intervalLoop(o, intervalEndOf(nextChange, to), to)
    ELSE IF nextChange = ZeroTime \/ nextChange > to THEN <<>>
    ELSE intervalLoop(o, nextChange, to)

\* the loop "for current.Before(to)"
intervalLoop(o, current, to) ==
    IF ~(current < to) THEN <<>>
    ELSE intervalStep(o, current, to, findNextChange(o, current))

GetOpenIntervals(o, from, to) ==
    IF from >= to THEN <<>> ELSE intervalLoop(o, from, to)

-----------------------------------------------------------------------------
(* IsEqualTo.                                                              *)

\* a nil *OpeningHours
Nil == [nil |-> TRUE]

\* the instants of the sampling loop: from the start of the reference week,
\* sampleInterval apart, before start.Add(sampleDuration)
sampleTimes == {SampleStart + SampleInterval * k :
                   k \in 0..((SampleDuration \div SampleInterval) - 1)}

\* one iteration of the sampling loop: FALSE is "return false"
sampleAgrees(o, other, current) ==
    /\ GetState(o, current) = GetState(other, current)
    /\ GetUnknown(o, current) = GetUnknown(other, current)
    /\ GetComment(o, current) = GetComment(other, current)

IsEqualTo(o, other) ==
    IF other = Nil THEN FALSE
    ELSE \A current \in sampleTimes : sampleAgrees(o, other, current)

-----------------------------------------------------------------------------
(* Construction.  An input value is given by its ';'-separated parts, each *)
(* the list of rules parseRule yields for the sub-rules the part splits    *)
(* into at its top-level commas.                                           *)

weekdaysOf(S) == [i \in 1..7 |-> (i - 1) \in S]

WeekdayRule(days, ranges, state) ==
    [ZeroRule EXCEPT !.weekdays = weekdaysOf(days), !.timeRanges = ranges,
                     !.state = state]

TimeRule(ranges, state) ==
    [ZeroRule EXCEPT !.timeRanges = ranges, !.state = state]

HolidayRule(offset, ranges, state) ==
    [ZeroRule EXCEPT !.isPH = TRUE, !.phOffset = offset, !.timeRanges = ranges,
                     !.state = state]

MoFr == {1, 2, 3, 4, 5}

\* the rules of one part, tagged with its group id
tagGroup(part, groupID) ==
    [k \in 1..Len(part) |-> [part[k] EXCEPT !.ruleGroup = groupID]]

\* the loop of parseRuleGroup over the parts from part i on
RECURSIVE parseRuleGroup(_, _, _)
parseRuleGroup(parts, i, ruleGroupCounter) ==
    IF i > Len(parts) THEN <<>>
    ELSE IF Len(parts[i]) > 1
         THEN tagGroup(parts[i], ruleGroupCounter)
                  \o parseRuleGroup(parts, i + 1, ruleGroupCounter + 1)
         ELSE tagGroup(parts[i], 0) \o parseRuleGroup(parts, i + 1, ruleGroupCounter)

\* New(value) for the value "primary || fallback[1] || fallback[2] ..."
New(primary, fallback) ==
    [rules |-> parseRuleGroup(primary, 1, 1),
     fallbackGroups |-> [g \in 1..Len(fallback) |-> parseRuleGroup(fallback[g], 1, 1)],
     holidayChecker |-> NoChecker,
     schoolHolidayChecker |-> NoChecker,
     coordinates |-> NoCoordinates]

\* sequences over S of length lo..hi
SeqsUpTo(S, lo, hi) == UNION {[1..n -> S] : n \in lo..hi}

-----------------------------------------------------------------------------
(* PrettifyValue and the way back through New.  A printed value is kept as *)
(* the fields its text is made of: "24/7", "off", or the parts joined by   *)
(* "; ", each part the year, month, weekday, holiday, time, state and      *)
(* comment words prettifyRule writes.  Values with ordinal weekdays,       *)
(* variable times or open-ended years are not among the inputs.            *)

\* the text New rejects
ParseError == [error |-> TRUE]

\* the count loop of prettifyWeekdays: the run of set days from start on
RECURSIVE runLength(_, _, _)
runLength(weekdays, start, count) ==
    IF count < 7 /\ weekdays[((start + count) % 7) + 1]
    THEN runLength(weekdays, start, count + 1) ELSE count

\* a weekday word: one name (from = to) or a range "from-to"
dayWord(from, to) == [from |-> from, to |-> to]

\* the words of one run: a single day, three days listed, or a range
runWords(start, count) ==
    IF count = 1 THEN <<dayWord(start, start)>>
    ELSE IF count = 3
         THEN [k \in 1..3 |-> dayWord((start + k - 1) % 7, (start + k - 1) % 7)]
         ELSE <<dayWord(start, (start + count - 1) % 7)>>

\* the scan of prettifyWeekdays from Monday, skipping each run once printed
RECURSIVE weekdayWords(_, _)
weekdayWords(weekdays, j) ==
    IF j >= 7 THEN <<>>
    ELSE IF weekdays[((1 + j) % 7) + 1]
         THEN runWords((1 + j) % 7, runLength(weekdays, (1 + j) % 7, 0))
                  \o weekdayWords(weekdays, j + runLength(weekdays, (1 + j) % 7, 0))
         ELSE weekdayWords(weekdays, j + 1)

prettifyWeekdays(weekdays) == weekdayWords(weekdays, 0)

\* "HH:MM-HH:MM", or "HH:MM+" for an open end; a text read by New may also
\* be "HH:MM-HH:MM+", an open end with the end time written
prettifyTimeRange(tr) ==
    [startH |-> tr.start \div 60, startM |-> tr.start % 60,
     endH |-> IF tr.openEnd THEN 0 ELSE tr.end \div 60,
     endM |-> IF tr.openEnd THEN 0 ELSE tr.end % 60,
     openEnd |-> tr.openEnd]

\* the year words: none, "Y " or "Y-Y "
prettifyYear(r) ==
    IF r.yearStart > 0
    THEN IF r.yearStart = r.yearEnd THEN <<r.yearStart>> ELSE <<r.yearStart, r.yearEnd>>
    ELSE <<>>

\* the month words "Mon[ DD[-DD]][-Mon[ DD]] "; 0 for a word not written
prettifyMonth(r) ==
    IF r.monthStart > 0
    THEN [month1 |-> r.monthStart,
          day1 |-> IF r.dayStart > 0 THEN r.dayStart ELSE 0,
          dayTo |-> IF r.dayStart > 0 /\ r.dayEnd > r.dayStart THEN r.dayEnd ELSE 0,
          month2 |-> IF r.monthEnd # r.monthStart THEN r.monthEnd ELSE 0,
          day2 |-> IF r.monthEnd # r.monthStart /\ r.dayEnd > 0 THEN r.dayEnd ELSE 0]
    ELSE [month1 |-> 0, day1 |-> 0, dayTo |-> 0, month2 |-> 0, day2 |-> 0]

prettifyRule(r) ==
    [year |-> prettifyYear(r),
     weeks |-> <<>>,
     month |-> prettifyMonth(r),
     weekdays |-> IF r.weekdays # <<>> THEN prettifyWeekdays(r.weekdays) ELSE <<>>,
     isPH |-> r.isPH,
     phOffset |-> IF r.isPH THEN r.phOffset ELSE 0,
     isSH |-> r.isSH,
     times |-> [k \in 1..Len(r.timeRanges) |-> prettifyTimeRange(r.timeRanges[k])],
     state |-> IF r.state = StateClosed THEN "off"
               ELSE IF r.state = StateUnknown THEN "unknown" ELSE "",
     comment |-> r.comment]

\* the part prettifyRule returns as the empty string
emptyPart == prettifyRule(ZeroRule)

\* the parts of the rules from i on, the empty ones left out
RECURSIVE prettifyParts(_, _)
prettifyParts(rules, i) ==
    IF i > Len(rules) THEN <<>>
    ELSE IF prettifyRule(rules[i]) = emptyPart THEN prettifyParts(rules, i + 1)
         ELSE <<prettifyRule(rules[i])>> \o prettifyParts(rules, i + 1)

\* a single rule without weekdays that is the round-the-clock range
wholeDayRule(r) ==
    /\ r.weekdays = <<>> /\ Len(r.timeRanges) = 1
    /\ r.timeRanges[1].start = 0 /\ r.timeRanges[1].end = 1440
    /\ ~r.timeRanges[1].openEnd
    /\ r.timeRanges[1].startVar = "" /\ r.timeRanges[1].endVar = ""

\* a single rule without weekdays and without time ranges
bareRule(r) == r.weekdays = <<>> /\ Len(r.timeRanges) = 0

PrettifyValue(o) ==
    IF Len(o.rules) = 1 /\ bareRule(o.rules[1]) /\ o.rules[1].state = StateOpen
    THEN [special |-> "24/7", parts |-> <<>>]
    ELSE IF Len(o.rules) = 1 /\ bareRule(o.rules[1]) /\ o.rules[1].state = StateClosed
    THEN [special |-> "off", parts |-> <<>>]
    ELSE IF Len(o.rules) = 1 /\ wholeDayRule(o.rules[1])
    THEN [special |-> "24/7", parts |-> <<>>]
    ELSE [special |-> "", parts |-> prettifyParts(o.rules, 1)]

\* parseWeekdaySelector on one weekday word, wrapping past Saturday
daysOfWord(w) ==
    IF w.from <= w.to THEN w.from..w.to ELSE (w.from..6) \cup (0..w.to)

\* parseWeekdaysWithHolidays on the weekday words of a part
parseWeekdaysWithHolidays(words) ==
    weekdaysOf(UNION {daysOfWord(words[k]) : k \in 1..Len(words)})

\* parseTimeRange on "HH:MM-HH:MM" or "HH:MM+"
parseTimeRange(w) ==
    IF w.openEnd
    THEN [FixedRange(w.startH * 60 + w.startM, 1440) EXCEPT !.openEnd = TRUE]
    ELSE FixedRange(w.startH * 60 + w.startM, w.endH * 60 + w.endM)

\* the hours and minutes a time range may be written with: the standard
\* form is validated, the two open-ended forms are not
validTimeRange(w) ==
    \/ w.openEnd
    \/ /\ w.startH <= 26 /\ w.endH <= 26
       /\ w.startM <= 59 /\ w.endM <= 59

\* a week word "week N" (weekStart = weekEnd) or "week N-M"
weekWord(weekStart, weekEnd) ==
    [weekStart |-> weekStart, weekEnd |-> weekEnd, weekInterval |-> 0]

\* parseWeekNumbers: the week numbers it accepts
validWeekWord(w) ==
    /\ w.weekStart >= 1 /\ w.weekStart <= 53
    /\ w.weekEnd >= 1 /\ w.weekEnd <= 53

\* parseYearWithList on the year words
parseYearWithList(r, year) ==
    IF Len(year) = 0 THEN r
    ELSE [r EXCEPT !.yearStart = year[1], !.yearEnd = year[Len(year)]]

\* the month words parseMonthDate reads whole: "Mon", "Mon-Mon", "Mon DD",
\* "Mon DD-DD" and "Mon DD-Mon DD"
monthWordsRead(m) ==
    \/ m.month1 = 0
    \/ m.day1 = 0 /\ m.dayTo = 0 /\ m.day2 = 0
    \/ m.day1 > 0 /\ m.month2 = 0
    \/ m.day1 > 0 /\ m.dayTo = 0 /\ m.month2 > 0 /\ m.day2 > 0

\* parseMonthDate on the month words it reads whole
parseMonthDate(r, m) ==
    IF m.month1 = 0 THEN r
    ELSE IF m.day1 = 0
    THEN [r EXCEPT !.monthStart = m.month1,
                   !.monthEnd = IF m.month2 > 0 THEN m.month2 ELSE m.month1]
    ELSE IF m.month2 = 0
    THEN [r EXCEPT !.monthStart = m.month1, !.monthEnd = m.month1,
                   !.dayStart = m.day1,
                   !.dayEnd = IF m.dayTo > 0 THEN m.dayTo ELSE m.day1]
    ELSE [r EXCEPT !.monthStart = m.month1, !.monthEnd = m.month2,
                   !.dayStart = m.day1, !.dayEnd = m.day2]

\* a part that is the word "off" alone, with or without a comment
offWord(p) == [p EXCEPT !.comment = ""] = [emptyPart EXCEPT !.state = "off"]

\* a part that is the word "unknown" alone: it is read as a weekday name
unknownWord(p) == [p EXCEPT !.comment = ""] = [emptyPart EXCEPT !.state = "unknown"]

\* a part whose "PH" or "SH" follows weekday words: the words after the
\* weekdays are read as time ranges
holidayAfterWeekdays(p) == Len(p.weekdays) > 0 /\ (p.isPH \/ p.isSH)

\* a part whose year has no word after it but the state: yearPattern asks
\* for a space after the year
yearWordAlone(p) ==
    /\ Len(p.year) > 0
    /\ [p EXCEPT !.year = <<>>, !.state = "", !.comment = ""] = emptyPart

\* a part parseRule returns an error for: after the month name
\* parseMonthDate stops at "DD-DD-Mon" or "DD-Mon" without a day, and the
\* words left are neither weekdays nor a time range; or a time or a week
\* number out of range
rejectedPart(p) ==
    \/ ~monthWordsRead(p.month)
    \/ \E k \in 1..Len(p.times) : ~validTimeRange(p.times[k])
    \/ \E k \in 1..Len(p.weeks) : ~validWeekWord(p.weeks[k])
    \/ holidayAfterWeekdays(p)
    \/ yearWordAlone(p)
    \/ unknownWord(p)

\* parseRule on one printed part
parseRule(p) ==
    IF offWord(p) THEN [ZeroRule EXCEPT !.state = StateClosed, !.comment = p.comment]
    ELSE [parseMonthDate(parseYearWithList(ZeroRule, p.year), p.month)
             EXCEPT !.comment = p.comment,
                    !.weekConstraints = p.weeks,
                    !.state = IF p.state = "off" THEN StateClosed
                              ELSE IF p.state = "unknown" THEN StateUnknown
                              ELSE StateOpen,
                    !.isPH = p.isPH, !.phOffset = p.phOffset, !.isSH = p.isSH,
                    !.weekdays = IF Len(p.weekdays) > 0
                                 THEN parseWeekdaysWithHolidays(p.weekdays) ELSE <<>>,
                    !.timeRanges = [k \in 1..Len(p.times) |-> parseTimeRange(p.times[k])]]

\* New on a printed value: "24/7" and "off" are read by parse itself, the
\* other texts part by part, none of which holds a "||" or a top-level comma
parsePrinted(text) ==
    IF text.special = "24/7" THEN New(<<<<ZeroRule>>>>, <<>>)
    ELSE IF text.special = "off"
    THEN New(<<<<[ZeroRule EXCEPT !.state = StateClosed]>>>>, <<>>)
    ELSE IF Len(text.parts) = 0 \/ \E i \in 1..Len(text.parts) : rejectedPart(text.parts[i])
    THEN ParseError
    ELSE New([i \in 1..Len(text.parts) |-> <<parseRule(text.parts[i])>>], <<>>)

-----------------------------------------------------------------------------
(* The inputs the model is run on.                                         *)

\* "Mo-Fr 09:00-17:00"
PartWeek == <<WeekdayRule(MoFr, <<FixedRange(540, 1020)>>, StateOpen)>>
\* "We 12:00-18:00"
PartWed == <<WeekdayRule({3}, <<FixedRange(720, 1080)>>, StateOpen)>>
\* "We 12:00-14:00 off"
PartWedOff == <<WeekdayRule({3}, <<FixedRange(720, 840)>>, StateClosed)>>
\* "We 12:00-18:00 unknown"
PartWedUnknown == <<WeekdayRule({3}, <<FixedRange(720, 1080)>>, StateUnknown)>>
\* "Mo-Fr 09:00-17:00 unknown"
PartWeekUnknown == <<WeekdayRule(MoFr, <<FixedRange(540, 1020)>>, StateUnknown)>>
\* "Mo-Fr 14:00-22:00"
PartWeekLate == <<WeekdayRule(MoFr, <<FixedRange(840, 1320)>>, StateOpen)>>
\* "12:00-18:00"
PartTime == <<TimeRule(<<FixedRange(720, 1080)>>, StateOpen)>>
\* "24/7"
PartAlways == <<ZeroRule>>
\* "Mo-Tu"
PartDays == <<WeekdayRule({1, 2}, <<>>, StateOpen)>>
\* "Mo-Tu 22:00-02:00"
PartNight == <<WeekdayRule({1, 2}, <<FixedRange(1320, 120)>>, StateOpen)>>
\* "Mo-Tu 22:00-01:00, We 22:00-02:00"
PartNightGroup == <<WeekdayRule({1, 2}, <<FixedRange(1320, 60)>>, StateOpen),
                    WeekdayRule({3}, <<FixedRange(1320, 120)>>, StateOpen)>>
\* "Mo-Tu 22:00-02:00, We 09:00-17:00 off"
PartGapGroup == <<WeekdayRule({1, 2}, <<FixedRange(1320, 120)>>, StateOpen),
                  WeekdayRule({3}, <<FixedRange(540, 1020)>>, StateClosed)>>
\* "Su-Tu 11:00-01:00, We-Th 11:00-03:00"
PartLateGroup == <<WeekdayRule({0, 1, 2}, <<FixedRange(660, 60)>>, StateOpen),
                   WeekdayRule({3, 4}, <<FixedRange(660, 180)>>, StateOpen)>>
\* "Mo-Fr 10:00-16:00, We 12:00-18:00"
PartCommaGroup == <<WeekdayRule(MoFr, <<FixedRange(600, 960)>>, StateOpen),
                    WeekdayRule({3}, <<FixedRange(720, 1080)>>, StateOpen)>>
\* "Tu 22:00-02:00 off, We 10:00-18:00"
PartClosedNightGroup == <<WeekdayRule({2}, <<FixedRange(1320, 120)>>, StateClosed),
                          WeekdayRule({3}, <<FixedRange(600, 1080)>>, StateOpen)>>
\* "Tu 22:00-02:00 unknown, We 10:00-18:00"
PartUnknownNightGroup == <<WeekdayRule({2}, <<FixedRange(1320, 120)>>, StateUnknown),
                           WeekdayRule({3}, <<FixedRange(600, 1080)>>, StateOpen)>>
\* "PH +1 day 12:00-14:00 off"
PartAfterHoliday == <<HolidayRule(1, <<FixedRange(720, 840)>>, StateClosed)>>

\* "Mo-Fr 09:00-17:00 unknown \"call ahead\""
PartWeekUnknownNote ==
    <<[WeekdayRule(MoFr, <<FixedRange(540, 1020)>>, StateUnknown)
          EXCEPT !.comment = "call ahead"]>>
\* "Mo-Fr 09:00-12:00 \"morning\""
PartMorningNote ==
    <<[WeekdayRule(MoFr, <<FixedRange(540, 720)>>, StateOpen) EXCEPT !.comment = "morning"]>>
\* "Mo-Fr 12:00-17:00 \"afternoon\""
PartAfternoonNote ==
    <<[WeekdayRule(MoFr, <<FixedRange(720, 1020)>>, StateOpen)
          EXCEPT !.comment = "afternoon"]>>

\* "Jan-Dec 12:00-18:00"
PartFullYear ==
    <<[TimeRule(<<FixedRange(720, 1080)>>, StateOpen) EXCEPT !.monthStart = 1, !.monthEnd = 12]>>
\* "Jan 12:00-18:00"
PartJanuary ==
    <<[TimeRule(<<FixedRange(720, 1080)>>, StateOpen) EXCEPT !.monthStart = 1, !.monthEnd = 1]>>
\* "Jan 05-Dec 10 12:00-18:00"
PartMonthDays ==
    <<[TimeRule(<<FixedRange(720, 1080)>>, StateOpen)
          EXCEPT !.monthStart = 1, !.monthEnd = 12, !.dayStart = 5, !.dayEnd = 10]>>
\* "week 01-10 12:00-18:00"
PartWeeks ==
    <<[TimeRule(<<FixedRange(720, 1080)>>, StateOpen)
          EXCEPT !.weekConstraints = <<[weekStart |-> 1, weekEnd |-> 10, weekInterval |-> 0]>>]>>
\* "2024 12:00-18:00"
PartYear ==
    <<[TimeRule(<<FixedRange(720, 1080)>>, StateOpen)
          EXCEPT !.yearStart = 2024, !.yearEnd = 2024]>>
\* "SH off"
PartSchoolOff == <<[ZeroRule EXCEPT !.isSH = TRUE, !.state = StateClosed]>>

\* "Mo-Fr 08:50-17:00"
PartWeekEarly == <<WeekdayRule(MoFr, <<FixedRange(530, 1020)>>, StateOpen)>>
\* "Mo-Fr 09:00-18:00"
PartWeekLong == <<WeekdayRule(MoFr, <<FixedRange(540, 1080)>>, StateOpen)>>

\* the parts of the values without fallback groups
PrimaryParts == {PartWeek, PartWed, PartWedOff, PartWeekLate, PartTime}

\* the primary groups of the values with fallback groups
FallbackPrimaries ==
    {<<PartWeek>>, <<PartWeekUnknown>>, <<PartWeek, PartWedOff>>,
     <<PartWeekUnknown, PartWedOff>>, <<PartWeek, PartWeekUnknown>>}

\* the '||' groups, each the list of its parts
FallbackGroups == {<<PartTime>>, <<PartWedOff>>, <<PartWeek, PartWedUnknown>>}

\* values with comma groups, holiday offsets, weekday-only and night rules
ExceptionValues ==
    {<<PartWeek, PartAfterHoliday>>, <<PartGapGroup>>, <<PartNightGroup>>,
     <<PartWeek, PartNightGroup>>, <<PartDays>>, <<PartDays, PartWed>>,
     <<PartNight>>, <<PartNight, PartWedOff>>, <<PartAlways>>,
     <<PartAlways, PartWedOff>>, <<PartLateGroup>>, <<PartWeek, PartLateGroup>>}

\* values with comma groups
GroupValues ==
    {<<PartCommaGroup>>, <<PartWeek, PartCommaGroup>>, <<PartCommaGroup, PartWedOff>>,
     <<PartGapGroup>>, <<PartNightGroup>>, <<PartLateGroup>>, <<PartClosedNightGroup>>,
     <<PartUnknownNightGroup>>}

\* the values the range queries are asked of
RangeValues ==
    {<<PartWeek>>, <<PartWeek, PartWedOff>>, <<PartWeek, PartWed>>, <<PartDays>>,
     <<PartDays, PartWed>>, <<PartNight>>, <<PartAlways>>, <<PartTime>>,
     <<PartWeekUnknownNote>>, <<PartMorningNote, PartAfternoonNote>>}

\* the primary groups IsWeekStable is asked of
StabilityValues ==
    {<<PartWeek>>, <<PartAlways>>, <<PartTime>>, <<PartFullYear>>, <<PartJanuary>>,
     <<PartWeeks>>, <<PartYear>>, <<PartWeek, PartSchoolOff>>, <<PartMonthDays>>,
     <<PartWeek, PartAfterHoliday>>, <<PartWeekUnknownNote>>}

\* the fallback groups of these values
StabilityFallbacks == {<<>>, <<<<PartTime>>>>, <<<<PartJanuary>>>>}

\* "Su,PH off"
PartSunHolidayOff == <<[WeekdayRule({0}, <<>>, StateClosed) EXCEPT !.isPH = TRUE]>>
\* "Sa-Su off"
PartWeekendOff == <<WeekdayRule({6, 0}, <<>>, StateClosed)>>
\* "Monday,Tuesday,Wednesday 09:00-17:00"
PartThreeDays == <<WeekdayRule({1, 2, 3}, <<FixedRange(540, 1020)>>, StateOpen)>>

\* the parts of the values printed with PrettifyValue
PrettifyParts ==
    {PartWeek, PartWedOff, PartWeekUnknownNote, PartTime, PartAlways, PartNightGroup,
     PartAfterHoliday, PartSchoolOff, PartFullYear, PartYear, PartMonthDays,
     PartSunHolidayOff, PartWeekendOff, PartThreeDays}

\* their primary groups: one part or two
PrettifyPrimaries == SeqsUpTo(PrettifyParts, 1, 2)

\* their fallback groups
PrettifyFallbacks == {<<>>, <<<<PartTime>>>>}

\* the hours and minutes written in the time texts given to New
TextHours == {9, 26, 27}
TextMinutes == {0, 59, 60}

\* the time words "HH:MM-HH:MM", "HH:MM-HH:MM+" and, with end 00:00, "HH:MM+"
TimeWords ==
    [startH : TextHours, startM : TextMinutes, endH : TextHours \cup {0},
     endM : TextMinutes, openEnd : BOOLEAN]

\* the week words "week N" and "week 01-N"
WeekWords == {<<>>} \cup {<<weekWord(n, n)>> : n \in {0, 1, 53, 54}}
                   \cup {<<weekWord(1, n)>> : n \in {53, 54}}

\* the texts "[week N ]Mo <time>"
TimeTexts ==
    {[special |-> "",
      parts |-> <<[emptyPart EXCEPT !.weekdays = <<dayWord(1, 1)>>,
                                    !.weeks = weeks, !.times = <<w>>]>>] :
        w \in TimeWords, weeks \in WeekWords}

\* the primary groups of the values compared with IsEqualTo
EqualityPrimaries ==
    {<<PartWeek>>, <<PartWeekEarly>>, <<PartWeekLong>>, <<PartWeek, PartWeek>>,
     <<PartWeek, PartWedOff>>, <<PartWeekUnknown>>, <<PartWeekUnknownNote>>,
     <<PartAlways>>, <<PartGapGroup>>, <<PartWeek, PartAfterHoliday>>}

\* the fallback groups of these values
EqualityFallbacks == {<<>>, <<<<PartTime>>>>}

\* the values a value is compared with
Others ==
    {Nil} \cup {New(primary, fallback) :
                   primary \in EqualityPrimaries, fallback \in EqualityFallbacks}

SampleMinutes == {60, 480, 540, 720, 780, 840, 1020, 1050, 1080, 1320}

\* the instants the queries are asked about; some carry seconds
Instants ==
    {DateAt(d, m) : d \in 0..(MaxDays - 1), m \in SampleMinutes}
        \cup {DateAt(d, m) + 30 : d \in 0..(MaxDays - 1), m \in {540, 1020}}

\* the instants a range starts at; one carries seconds
WindowStarts ==
    {DateAt(d, m) : d \in 0..(MaxDays - 1), m \in {480, 690, 1410}}
        \cup {DateAt(0, 480) + 30}

\* the length of a range in seconds: reversed, empty, one hour, four hours
WindowLengths == {-1800, 0, 3600, 14400}

\* maxdate minus t in seconds
MaxDateOffsets == {-1800, 1800, 3600, 36000}

\* "Mo-Su 00:00-24:00": boundaries every day, no change of state
PartEveryDay == <<WeekdayRule(0..6, <<FixedRange(0, 1440)>>, StateOpen)>>

\* "Mo 09:00-17:00"
PartMonday == <<WeekdayRule({1}, <<FixedRange(540, 1020)>>, StateOpen)>>

\* the values whose loops are run step by step
LoopValues ==
    {<<PartWeek>>, <<PartEveryDay>>, <<PartMonday>>, <<PartAlways>>,
     <<PartWeekUnknownNote>>}

\* the instants these queries start at; one carries seconds
LoopStarts == {DateAt(0, 480), DateAt(0, 1019) + 30, DateAt(MaxDays - 1, 1050)}

\* maxdate minus t in seconds: before t, ten hours, forty days
LoopMaxDateOffsets == {-1800, 36000, 40 * 86400}

\* the length of a range in seconds: empty, an hour, two days and a minute
LoopLengths == {0, 3600, 2 * 86400 + 60}

HolidayCheckers == {CheckerOf({1})}
SchoolHolidayCheckers == {CheckerOf({0})}

-----------------------------------------------------------------------------
(* The state machine.  A caller constructs a value, may attach oracles,    *)
(* and asks one query; the queries do not change the value, so a second    *)
(* query would start from the same value.                                  *)

Configuring == op \in {"New", "SetHolidayChecker", "SetSchoolHolidayChecker"}

TypeOK ==
    /\ op \in {"New", "SetHolidayChecker", "SetSchoolHolidayChecker", "GetState",
               "GetUnknown", "GetStateString", "GetNextChange",
               "GetNextChangeWithMaxDate", "GetOpenDuration", "GetOpenIntervals",
               "GetComment", "IsWeekStable", "IsEqualTo", "PrettifyValue", "Parse",
               "GetIterator", "SetDate", "Advance", "running"}
    /\ Len(oh.rules) > 0

Threads == 1..MaxThreads

\* the locals of a query loop before the call
IdleScan ==
    [pc |-> "idle", query |-> "", t |-> ZeroTime, limit |-> ZeroTime, day |-> 0,
     currentState |-> FALSE, current |-> ZeroTime, intervals |-> <<>>,
     result |-> ZeroTime]

\* a goroutine that has not called a query
IdleCall ==
    [pc |-> "idle", query |-> "", t |-> ZeroTime, len |-> 0, shared |-> FALSE,
     g |-> 0, wrote |-> {}, read |-> {}, result |-> FALSE]

Constructed(primary, fallback) ==
    /\ calls = [th \in Threads |-> IdleCall]
    /\ it = Nil
    /\ scan = IdleScan
    /\ oh = New(primary, fallback)
    /\ op = "New"
    /\ arg = ZeroTime
    /\ res = FALSE

Init ==
    \E primary \in SeqsUpTo(PrimaryParts, 1, MaxParts) : Constructed(primary, <<>>)

InitFallback ==
    \E primary \in FallbackPrimaries :
        \E fallback \in SeqsUpTo(FallbackGroups, 0, MaxFallbackGroups) :
            Constructed(primary, fallback)

InitExceptions ==
    \E primary \in ExceptionValues : Constructed(primary, <<>>)

SetHolidayChecker ==
    /\ Configuring
    /\ UNCHANGED <<calls, it, scan>>
    /\ \E hc \in HolidayCheckers : oh' = [oh EXCEPT !.holidayChecker = hc]
    /\ op' = "SetHolidayChecker"
    /\ UNCHANGED <<arg, res>>

SetSchoolHolidayChecker ==
    /\ Configuring
    /\ UNCHANGED <<calls, it, scan>>
    /\ \E shc \in SchoolHolidayCheckers : oh' = [oh EXCEPT !.schoolHolidayChecker = shc]
    /\ op' = "SetSchoolHolidayChecker"
    /\ UNCHANGED <<arg, res>>

QueryState ==
    /\ Configuring
    /\ UNCHANGED <<calls, it, scan>>
    /\ \E t \in Instants :
          /\ op' = "GetState"
          /\ arg' = t
          /\ res' = GetState(oh, t)
          /\ UNCHANGED oh

QueryUnknown ==
    /\ Configuring
    /\ UNCHANGED <<calls, it, scan>>
    /\ \E t \in Instants :
          /\ op' = "GetUnknown"
          /\ arg' = t
          /\ res' = GetUnknown(oh, t)
          /\ UNCHANGED oh

QueryStateString ==
    /\ Configuring
    /\ UNCHANGED <<calls, it, scan>>
    /\ \E t \in Instants :
          /\ op' = "GetStateString"
          /\ arg' = t
          /\ res' = GetStateString(oh, t)
          /\ UNCHANGED oh

QueryNextChange ==
    /\ Configuring
    /\ UNCHANGED <<calls, it, scan>>
    /\ \E t \in Instants :
          /\ op' = "GetNextChange"
          /\ arg' = t
          /\ res' = GetNextChange(oh, t)
          /\ UNCHANGED oh

QueryNextChangeWithMaxDate ==
    /\ Configuring
    /\ UNCHANGED <<calls, it, scan>>
    /\ \E t \in WindowStarts, offset \in MaxDateOffsets :
          /\ op' = "GetNextChangeWithMaxDate"
          /\ arg' = [t |-> t, maxdate |-> t + offset]
          /\ res' = GetNextChangeWithMaxDate(oh, t, t + offset)
          /\ UNCHANGED oh

QueryOpenDuration ==
    /\ Configuring
    /\ UNCHANGED <<calls, it, scan>>
    /\ \E from \in WindowStarts, length \in WindowLengths :
          /\ op' = "GetOpenDuration"
          /\ arg' = [from |-> from, to |-> from + length]
          /\ res' = GetOpenDuration(oh, from, from + length)
          /\ UNCHANGED oh

QueryOpenIntervals ==
    /\ Configuring
    /\ UNCHANGED <<calls, it, scan>>
    /\ \E from \in WindowStarts, length \in WindowLengths :
          /\ op' = "GetOpenIntervals"
          /\ arg' = [from |-> from, to |-> from + length]
          /\ res' = GetOpenIntervals(oh, from, from + length)
          /\ UNCHANGED oh

QueryComment ==
    /\ Configuring
    /\ UNCHANGED <<calls, it, scan>>
    /\ \E t \in Instants :
          /\ op' = "GetComment"
          /\ arg' = t
          /\ res' = GetComment(oh, t)
          /\ UNCHANGED oh

QueryIsWeekStable ==
    /\ Configuring
    /\ UNCHANGED <<calls, it, scan>>
    /\ op' = "IsWeekStable"
    /\ arg' = ZeroTime
    /\ res' = IsWeekStable(oh)
    /\ UNCHANGED oh

QueryIsEqualTo ==
    /\ Configuring
    /\ UNCHANGED <<calls, it, scan>>
    /\ \E other \in Others :
          /\ op' = "IsEqualTo"
          /\ arg' = other
          /\ res' = IsEqualTo(oh, other)
          /\ UNCHANGED oh

QueryPrettifyValue ==
    /\ Configuring
    /\ UNCHANGED <<calls, it, scan>>
    /\ op' = "PrettifyValue"
    /\ arg' = ZeroTime
    /\ res' = PrettifyValue(oh)
    /\ UNCHANGED oh

\* New(text): a second value is built, or the text is rejected
ParseText ==
    /\ Configuring
    /\ UNCHANGED <<calls, it, scan>>
    /\ \E text \in TimeTexts :
          /\ op' = "Parse"
          /\ arg' = text
          /\ res' = parsePrinted(text)
          /\ UNCHANGED oh

-----------------------------------------------------------------------------
(* The Iterator.                                                           *)

\* it.current after Advance with the zero time stored like any other result
advanceTo_Always(current, nextChange) == nextChange

\* it.current after Advance: moved only when there is a next change
advanceTo(current, nextChange) ==
    IF nextChange # ZeroTime THEN nextChange ELSE current

GetIterator ==
    /\ Configuring
    /\ it = Nil
    /\ \E start \in Instants \cup {DateAt(0, 540) + 30} :
          /\ it' = [current |-> start]
          /\ arg' = start
    /\ op' = "GetIterator"
    /\ UNCHANGED <<oh, res, calls, scan>>

SetDate ==
    /\ it # Nil
    /\ \E t \in {DateAt(0, 480), DateAt(1, 780)} :
          /\ it' = [it EXCEPT !.current = t]
          /\ arg' = t
    /\ op' = "SetDate"
    /\ UNCHANGED <<oh, res, calls, scan>>

\* Advance: arg is the date of the iterator before the call
Advance ==
    /\ it # Nil
    /\ it.current < DateAt(MaxDays, 0)
    /\ op' = "Advance"
    /\ arg' = it.current
    /\ res' = GetNextChange(oh, it.current)
    /\ it' = [it EXCEPT !.current = advanceTo(it.current, GetNextChange(oh, it.current))]
    /\ UNCHANGED <<oh, calls, scan>>

-----------------------------------------------------------------------------
(* The loops of the range queries, one iteration a step.                   *)

\* a query for an instant returns result
Return(query, result) ==
    /\ op' = query
    /\ scan' = [scan EXCEPT !.pc = "done", !.query = query, !.result = result]

\* GetOpenIntervals returns the intervals collected so far
ReturnIntervals(intervals) ==
    /\ op' = "GetOpenIntervals"
    /\ scan' = [scan EXCEPT !.pc = "done", !.query = "GetOpenIntervals",
                            !.intervals = intervals]

\* the boundaries of iteration day of GetNextChange at which the state
\* differs from currentState
changedMinutes(o, t, currentState, day) ==
    LET searchTime == IF day = 0 THEN t ELSE DateAt(DayIndex(t) + day, 0)
        startMinute == IF day = 0 THEN MinuteOfDay(t) ELSE 0
    IN {minute \in dayTransitions(o, searchTime, startMinute, day) :
           GetState(o, DateAt(DayIndex(searchTime), minute)) # currentState}

BeginGetNextChange ==
    /\ Configuring
    /\ \E t \in LoopStarts :
          IF isConstantValue(oh)
          THEN Return("GetNextChange", ZeroTime)
          ELSE /\ op' = "running"
               /\ scan' = [IdleScan EXCEPT !.pc = "day", !.query = "GetNextChange",
                                           !.t = t, !.currentState = GetState(oh, t)]
    /\ UNCHANGED <<oh, arg, res, calls, it>>

\* "for day := 0; day < 36; day++" of GetNextChange
DayOfGetNextChange ==
    /\ scan.pc = "day"
    /\ scan.query = "GetNextChange"
    /\ IF scan.day >= SearchDays
       THEN Return("GetNextChange", ZeroTime)
       ELSE IF changedMinutes(oh, scan.t, scan.currentState, scan.day) # {}
       THEN Return("GetNextChange",
                   DateAt(DayIndex(scan.t) + scan.day,
                          SetMin(changedMinutes(oh, scan.t, scan.currentState, scan.day))))
       ELSE /\ scan' = [scan EXCEPT !.day = scan.day + 1]
            /\ UNCHANGED op
    /\ UNCHANGED <<oh, arg, res, calls, it>>

\* the minutes of iteration day of GetNextChangeWithMaxDate at which the
\* loop over sortedTimes returns
dayStops(o, t, maxdate, currentState, day) ==
    LET searchTime == IF day = 0 THEN t ELSE DateAt(DayIndex(t) + day, 0)
        startMinute == IF day = 0 THEN MinuteOfDay(t) ELSE 0
    IN stopMinutes(o, DayIndex(searchTime),
                   dayTransitions(o, searchTime, startMinute, day),
                   maxdate, currentState)

BeginGetNextChangeWithMaxDate ==
    /\ Configuring
    /\ \E t \in LoopStarts, offset \in LoopMaxDateOffsets :
          IF isConstantValue(oh)
          THEN Return("GetNextChangeWithMaxDate", ZeroTime)
          ELSE /\ op' = "running"
               /\ scan' = [IdleScan EXCEPT !.pc = "day",
                                           !.query = "GetNextChangeWithMaxDate",
                                           !.t = t, !.limit = t + offset,
                                           !.currentState = GetState(oh, t)]
    /\ UNCHANGED <<oh, arg, res, calls, it>>

\* "for day := 0; day < maxDays+1; day++" of GetNextChangeWithMaxDate
DayOfGetNextChangeWithMaxDate ==
    /\ scan.pc = "day"
    /\ scan.query = "GetNextChangeWithMaxDate"
    /\ IF scan.day >= maxDaysOf(scan.t, scan.limit) + 1
       THEN Return("GetNextChangeWithMaxDate", ZeroTime)
       ELSE IF scan.day > 0 /\ DateAt(DayIndex(scan.t) + scan.day, 0) > scan.limit
       THEN Return("GetNextChangeWithMaxDate", ZeroTime)
       ELSE IF dayStops(oh, scan.t, scan.limit, scan.currentState, scan.day) # {}
       THEN Return("GetNextChangeWithMaxDate",
                   firstStop(DayIndex(scan.t) + scan.day,
                             dayStops(oh, scan.t, scan.limit, scan.currentState, scan.day),
                             scan.limit))
       ELSE /\ scan' = [scan EXCEPT !.day = scan.day + 1]
            /\ UNCHANGED op
    /\ UNCHANGED <<oh, arg, res, calls, it>>

BeginGetOpenIntervals ==
    /\ Configuring
    /\ \E from \in LoopStarts, length \in LoopLengths :
          IF from >= from + length
          THEN ReturnIntervals(<<>>)
          ELSE /\ op' = "running"
               /\ scan' = [IdleScan EXCEPT !.pc = "loop", !.query = "GetOpenIntervals",
                                           !.t = from, !.limit = from + length,
                                           !.current = from]
    /\ UNCHANGED <<oh, arg, res, calls, it>>

\* one iteration of "for current.Before(to)", given findNextChange(current)
iterateIntervals(nextChange) ==
    IF GetState(oh, scan.current) \/ GetUnknown(oh, scan.current)
    THEN /\ scan' = [scan EXCEPT
                        !.intervals = Append(scan.intervals,
                            Interval(scan.current, intervalEndOf(nextChange, scan.limit),
                                     GetUnknown(oh, scan.current),
                                     GetComment(oh, scan.current))),
                        !.current = intervalEndOf(nextChange, scan.limit)]
         /\ UNCHANGED op
    ELSE IF nextChange = ZeroTime \/ nextChange > scan.limit
    THEN ReturnIntervals(scan.intervals)
    ELSE /\ scan' = [scan EXCEPT !.current = nextChange]
         /\ UNCHANGED op

IterateGetOpenIntervals ==
    /\ scan.pc = "loop"
    /\ IF ~(scan.current < scan.limit)
       THEN ReturnIntervals(scan.intervals)
       ELSE iterateIntervals(findNextChange(oh, scan.current))
    /\ UNCHANGED <<oh, arg, res, calls, it>>

-----------------------------------------------------------------------------
(* Queries called from several goroutines on one value.  The rules of a    *)
(* value are appended one at a time by parseRuleGroup, so the backing      *)
(* array of oh.rules has the capacity append grew it to; a slot of that    *)
(* array is shared memory, within len(oh.rules) or beyond it.              *)

\* the capacity append gives a slice grown from nil one element at a time:
\* doubled whenever it is full
RECURSIVE rulesCap(_)
rulesCap(n) ==
    IF n = 0 THEN 0
    ELSE IF n > rulesCap(n - 1)
         THEN (IF rulesCap(n - 1) = 0 THEN 1 ELSE 2 * rulesCap(n - 1))
         ELSE rulesCap(n - 1)

\* allRules := oh.rules: the local slice shares the array of oh.rules
CallIsWeekStable(th) ==
    /\ calls[th].pc = "idle"
    /\ calls' = [calls EXCEPT ![th] =
                    [IdleCall EXCEPT !.pc = "append", !.query = "IsWeekStable",
                                     !.len = Len(oh.rules), !.shared = TRUE, !.g = 1]]
    /\ UNCHANGED <<oh, op, arg, res, it, scan>>

\* allRules = append(allRules, fg...) in place: the elements are written
\* into the spare slots of the array the slice points to
appendInPlace(c, n) ==
    [c EXCEPT !.wrote = IF c.shared THEN c.wrote \cup ((c.len + 1)..(c.len + n))
                        ELSE c.wrote,
              !.len = c.len + n, !.g = c.g + 1]

\* allRules = append(allRules, fg...) with too little capacity: the elements
\* are copied to a new array of the goroutine's own
appendCopying(c, n) ==
    [c EXCEPT !.read = IF c.shared THEN c.read \cup (1..c.len) ELSE c.read,
              !.shared = FALSE, !.len = c.len + n, !.g = c.g + 1]

\* one iteration of the loop over oh.fallbackGroups
AppendGroup(th) ==
    /\ calls[th].pc = "append"
    /\ calls[th].g <= Len(oh.fallbackGroups)
    /\ calls' = [calls EXCEPT ![th] =
                    IF calls[th].shared
                       /\ calls[th].len + Len(oh.fallbackGroups[calls[th].g])
                              > rulesCap(Len(oh.rules))
                    THEN appendCopying(calls[th], Len(oh.fallbackGroups[calls[th].g]))
                    ELSE appendInPlace(calls[th], Len(oh.fallbackGroups[calls[th].g]))]
    /\ UNCHANGED <<oh, op, arg, res, it, scan>>

\* the loop over allRules and the return
ScanRules(th) ==
    /\ calls[th].pc = "append"
    /\ calls[th].g > Len(oh.fallbackGroups)
    /\ calls' = [calls EXCEPT ![th] =
                    [calls[th] EXCEPT !.pc = "returned",
                                      !.read = IF calls[th].shared
                                               THEN calls[th].read \cup (1..calls[th].len)
                                               ELSE calls[th].read,
                                      !.result = IsWeekStable(oh)]]
    /\ UNCHANGED <<oh, op, arg, res, it, scan>>

\* GetState(t) called: it reads the rules and writes none of them
CallGetState(th) ==
    /\ calls[th].pc = "idle"
    /\ \E t \in {DateAt(0, 780), DateAt(2, 780)} :
          calls' = [calls EXCEPT ![th] =
                       [IdleCall EXCEPT !.pc = "evaluate", !.query = "GetState",
                                        !.len = Len(oh.rules), !.shared = TRUE, !.t = t]]
    /\ UNCHANGED <<oh, op, arg, res, it, scan>>

\* the scan of GetState over oh.rules and the return
EvaluateState(th) ==
    /\ calls[th].pc = "evaluate"
    /\ calls' = [calls EXCEPT ![th] =
                    [calls[th] EXCEPT !.pc = "returned",
                                      !.read = 1..calls[th].len,
                                      !.result = GetState(oh, calls[th].t)]]
    /\ UNCHANGED <<oh, op, arg, res, it, scan>>

Next ==
    \/ SetHolidayChecker
    \/ SetSchoolHolidayChecker
    \/ QueryState
    \/ QueryUnknown
    \/ QueryStateString
    \/ QueryNextChange

Spec == Init /\ [][Next]_vars

SpecFallback == InitFallback /\ [][Next]_vars

SpecExceptions == InitExceptions /\ [][Next]_vars

\* the queries over a range of time, asked of the values of RangeValues
InitRange ==
    \E primary \in RangeValues : Constructed(primary, <<>>)

NextRange ==
    \/ SetHolidayChecker
    \/ SetSchoolHolidayChecker
    \/ QueryNextChangeWithMaxDate
    \/ QueryOpenDuration
    \/ QueryOpenIntervals

SpecRange == InitRange /\ [][NextRange]_vars

\* IsWeekStable and the point queries, asked of the values of StabilityValues
InitStability ==
    \E primary \in StabilityValues :
        \E fallback \in StabilityFallbacks : Constructed(primary, fallback)

NextStability ==
    \/ SetHolidayChecker
    \/ SetSchoolHolidayChecker
    \/ QueryIsWeekStable
    \/ QueryState
    \/ QueryUnknown
    \/ QueryComment

SpecStability == InitStability /\ [][NextStability]_vars

\* the comparison of two values
InitEquality ==
    \E primary \in EqualityPrimaries :
        \E fallback \in EqualityFallbacks : Constructed(primary, fallback)

NextEquality ==
    \/ SetHolidayChecker
    \/ QueryIsEqualTo

SpecEquality == InitEquality /\ [][NextEquality]_vars

\* the values queried from several goroutines
SharedPrimaries ==
    {<<PartWeek>>, <<PartWeek, PartWed>>, <<PartWeek, PartWed, PartWedOff>>,
     <<PartWeek, PartNightGroup>>}

\* their fallback groups
SharedFallbacks == {<<>>, <<<<PartTime>>>>, <<<<PartTime>>, <<PartWeek, PartWedOff>>>>}

\* queries in parallel on one value
InitShared ==
    \E primary \in SharedPrimaries :
        \E fallback \in SharedFallbacks : Constructed(primary, fallback)

NextShared ==
    \E th \in Threads :
        \/ CallIsWeekStable(th)
        \/ AppendGroup(th)
        \/ ScanRules(th)
        \/ CallGetState(th)
        \/ EvaluateState(th)

SpecShared == InitShared /\ [][NextShared]_vars

\* comma groups
InitGroups ==
    \E primary \in GroupValues : Constructed(primary, <<>>)

SpecGroups == InitGroups /\ [][Next]_vars

\* the loops of the range queries
InitLoops ==
    \E primary \in LoopValues : Constructed(primary, <<>>)

StepLoops ==
    \/ DayOfGetNextChange
    \/ DayOfGetNextChangeWithMaxDate
    \/ IterateGetOpenIntervals

NextLoops ==
    \/ SetHolidayChecker
    \/ BeginGetNextChange
    \/ BeginGetNextChangeWithMaxDate
    \/ BeginGetOpenIntervals
    \/ StepLoops

\* a query that was called keeps running until it returns
SpecLoops == InitLoops /\ [][NextLoops]_vars /\ WF_scan(StepLoops)

\* the values an Iterator walks
IteratorValues ==
    {<<PartWeek>>, <<PartWeek, PartWedOff>>, <<PartWeek, PartWed>>, <<PartAlways>>,
     <<PartNight>>, <<PartCommaGroup>>, <<PartDays>>, <<PartTime>>}

InitIterator ==
    \E primary \in IteratorValues : Constructed(primary, <<>>)

NextIterator ==
    \/ SetHolidayChecker
    \/ GetIterator
    \/ SetDate
    \/ Advance

SpecIterator == InitIterator /\ [][NextIterator]_vars

\* the parsing of texts
InitParse == Constructed(<<PartAlways>>, <<>>)

NextParse == ParseText

SpecParse == InitParse /\ [][NextParse]_vars

\* the printing of a value
InitPrettify ==
    \E primary \in PrettifyPrimaries :
        \E fallback \in PrettifyFallbacks : Constructed(primary, fallback)

NextPrettify == QueryPrettifyValue

SpecPrettify == InitPrettify /\ [][NextPrettify]_vars

-----------------------------------------------------------------------------
(* Notions the properties below are stated with.                           *)

\* every primary rule stands in a ';'-separated part of its own
semicolonSeparated(o) == \A k \in 1..Len(o.rules) : o.rules[k].ruleGroup = 0

\* rule k is Open with time ranges, its selector matches the date of t and
\* none of its time ranges contains t
claimsDateOnly(o, t, k) ==
    /\ o.rules[k].state = StateOpen
    /\ Len(o.rules[k].timeRanges) > 0
    /\ matchesSelectorWithOH(o.rules[k], t, o.holidayChecker, o)
    /\ ~matchesWithOH(o.rules[k], t, o.holidayChecker, o)

\* the value with primary rule k removed
removeRule(o, k) ==
    [o EXCEPT !.rules = SubSeq(o.rules, 1, k - 1) \o SubSeq(o.rules, k + 1, Len(o.rules))]

\* the value with every '||' group removed
withoutFallback(o) == [o EXCEPT !.fallbackGroups = <<>>]

\* the modifier of the highest-index rule of a group that matches t on
\* selector and time, "none" when no rule of the group matches
groupTop(o, t, group) ==
    LET m == {i \in 1..Len(group) : matchesWithOH(group[i], t, o.holidayChecker, o)}
    IN IF m = {} THEN "none"
       ELSE IF group[SetMax(m)].state = StateUnknown THEN "unknown"
       ELSE IF group[SetMax(m)].state = StateOpen THEN "open"
       ELSE "closed"

\* the fallback groups resolved in declaration order: the answer of the
\* first group whose top is Open or Closed, "unknown" when there is none
FallbackResolution(o, t) ==
    LET decided == {g \in 1..Len(o.fallbackGroups) :
                       groupTop(o, t, o.fallbackGroups[g]) \in {"open", "closed"}}
    IN IF decided = {} THEN "unknown"
       ELSE groupTop(o, t, o.fallbackGroups[SetMin(decided)])

\* the highest-index primary rule matching t exists and has modifier Unknown
primaryTopUnknown(o, t) ==
    /\ GetMatchingRule(o, t) # 0
    /\ o.rules[GetMatchingRule(o, t)].state = StateUnknown

\* the sampled instants from t up to, not including, r
sampledBetween(t, r) == {m \in Instants : t <= m /\ m < r}

-----------------------------------------------------------------------------
(* The properties.                                                         *)

\* C1 as stated: with ';'-separated rules, if a later Open rule with time
\* ranges claims the date of the instant without containing the instant, and
\* an earlier rule with another selector matches on selector and time, then
\* GetState returns closed.
C1_AnyLaterRuleOverrides ==
    (op = "GetState" /\ semicolonSeparated(oh)) =>
        \A j \in 1..Len(oh.rules) : \A i \in 1..(j - 1) :
            (/\ claimsDateOnly(oh, arg, j)
             /\ matchesWithOH(oh.rules[i], arg, oh.holidayChecker, oh)
             /\ ~hasSameSelector(oh.rules[j], oh.rules[i]))
                => res = FALSE

\* C1 amended: with ';'-separated rules, let the earlier rule be the
\* highest-index rule matching the instant on selector and time, with modifier
\* Open or Closed; if the highest-index rule after it that is Open with time
\* ranges and claims the date has another selector, GetState returns closed.
C1_LastClaimingRuleOverrides ==
    (op = "GetState" /\ semicolonSeparated(oh)) =>
        LET i == GetMatchingRule(oh, arg)
            later == {j \in (i + 1)..Len(oh.rules) : claimsDateOnly(oh, arg, j)}
        IN (/\ i # 0
            /\ oh.rules[i].state # StateUnknown
            /\ later # {}
            /\ ~hasSameSelector(oh.rules[SetMax(later)], oh.rules[i]))
               => res = FALSE

\* an Open earlier rule matches and a later rule with another selector
\* claims the date: the answer is closed
C1_Witness ==
    /\ op = "GetState"
    /\ semicolonSeparated(oh)
    /\ GetMatchingRule(oh, arg) # 0
    /\ oh.rules[GetMatchingRule(oh, arg)].state = StateOpen
    /\ \E j \in (GetMatchingRule(oh, arg) + 1)..Len(oh.rules) :
          /\ claimsDateOnly(oh, arg, j)
          /\ \A k \in (j + 1)..Len(oh.rules) : ~claimsDateOnly(oh, arg, k)
          /\ ~hasSameSelector(oh.rules[j], oh.rules[GetMatchingRule(oh, arg)])
    /\ res = FALSE

\* C2: a Closed rule with time ranges changes the state only inside its time
\* ranges: on a date its selector matches, at an instant outside its ranges,
\* GetState equals what the remaining rules give with the rule removed.
C2_OffRuleOnlyInsideItsRanges ==
    op = "GetState" =>
        \A k \in 1..Len(oh.rules) :
            (/\ oh.rules[k].state = StateClosed
             /\ Len(oh.rules[k].timeRanges) > 0
             /\ matchesSelectorWithOH(oh.rules[k], arg, oh.holidayChecker, oh)
             /\ ~matchesWithOH(oh.rules[k], arg, oh.holidayChecker, oh))
                => res = GetState(removeRule(oh, k), arg)

\* C3: when no primary rule matches the instant on selector and time,
\* GetState is the resolution of the fallback groups.
C3_NoPrimaryMatchUsesFallback ==
    (op = "GetState" /\ GetMatchingRule(oh, arg) = 0) =>
        res = (FallbackResolution(oh, arg) = "open")

\* C4: when the highest-index primary rule matching the instant is Open or
\* Closed, GetState equals its value with every '||' group removed.
C4_DefinitePrimaryIgnoresFallback ==
    (/\ op = "GetState"
     /\ GetMatchingRule(oh, arg) # 0
     /\ oh.rules[GetMatchingRule(oh, arg)].state # StateUnknown)
        => res = GetState(withoutFallback(oh), arg)

\* a Closed primary match while the fallback groups resolve to open
C4_Witness ==
    /\ op = "GetState"
    /\ GetMatchingRule(oh, arg) # 0
    /\ oh.rules[GetMatchingRule(oh, arg)].state = StateClosed
    /\ FallbackResolution(oh, arg) = "open"
    /\ res = FALSE

\* C5: when GetState turns to the fallback groups for an Unknown primary
\* match, the answer is that of the first group, in declaration order, whose
\* highest-index matching rule is Open or Closed; a group topped by Unknown
\* and a group without a matching rule are skipped as a whole.
C5_FallbackInDeclarationOrder ==
    (op = "GetState" /\ primaryTopUnknown(oh, arg)) =>
        res = (FallbackResolution(oh, arg) = "open")

\* the first group is topped by Unknown over a matching Open rule and is
\* skipped; the second group answers closed
C5_Witness ==
    /\ op = "GetState"
    /\ primaryTopUnknown(oh, arg)
    /\ Len(oh.fallbackGroups) >= 2
    /\ groupTop(oh, arg, oh.fallbackGroups[1]) = "unknown"
    /\ \E i \in 1..Len(oh.fallbackGroups[1]) :
          /\ oh.fallbackGroups[1][i].state = StateOpen
          /\ matchesWithOH(oh.fallbackGroups[1][i], arg, oh.holidayChecker, oh)
    /\ groupTop(oh, arg, oh.fallbackGroups[2]) = "closed"
    /\ res = FALSE

\* C6: when the highest-index matching primary rule is Unknown and no
\* fallback group resolves to Open or Closed, GetUnknown returns true.
C6_UnresolvedUnknownSurfaces ==
    (/\ op = "GetUnknown"
     /\ primaryTopUnknown(oh, arg)
     /\ FallbackResolution(oh, arg) = "unknown")
        => res = TRUE

\* C7: GetStateString is "open" exactly when GetState is true, "unknown"
\* exactly when GetUnknown is true, and "closed" otherwise.
C7_StateStringAgrees ==
    op = "GetStateString" =>
        /\ (res = "open") <=> GetState(oh, arg)
        /\ (res = "unknown") <=> GetUnknown(oh, arg)
        /\ (res = "closed") <=> (~GetState(oh, arg) /\ ~GetUnknown(oh, arg))

\* C8: a non-zero result of GetNextChange is the first transition: the state
\* at the result differs from the state at the instant, and the state at
\* every sampled instant in between equals the state at the instant.
C8_NextChangeIsFirstTransition ==
    (op = "GetNextChange" /\ res # ZeroTime) =>
        /\ GetState(oh, res) # GetState(oh, arg)
        /\ \A m \in sampledBetween(arg, res) : GetState(oh, m) = GetState(oh, arg)

\* C9: a non-zero result of GetNextChange is strictly later than the
\* instant asked about.
C9_NextChangeIsLater ==
    (op = "GetNextChange" /\ res # ZeroTime) => res > arg

\* asked thirty seconds into the minute of a boundary, the answer is a later
\* boundary of the same day
C9_Witness ==
    /\ op = "GetNextChange"
    /\ res # ZeroTime
    /\ arg % 60 # 0
    /\ \E k \in 1..Len(oh.rules) : \E n \in 1..Len(oh.rules[k].timeRanges) :
          oh.rules[k].timeRanges[n].start = MinuteOfDay(arg)
    /\ DayIndex(res) = DayIndex(arg)

\* C10: GetNextChange returns the zero time exactly when GetState is
\* constant from the instant on: a zero result means the state at every
\* later sampled instant equals the state at the instant, and a non-zero
\* result is an instant of another state.
C10_ZeroIffConstant ==
    op = "GetNextChange" =>
        /\ res = ZeroTime =>
              \A m \in {x \in Instants : x >= arg} : GetState(oh, m) = GetState(oh, arg)
        /\ res # ZeroTime => GetState(oh, res) # GetState(oh, arg)

\* the summed length of the intervals with the given Unknown flag
RECURSIVE intervalSeconds(_, _)
intervalSeconds(intervals, unknown) ==
    IF intervals = <<>> THEN 0
    ELSE (IF Head(intervals).Unknown = unknown
          THEN Head(intervals).End - Head(intervals).Start ELSE 0)
         + intervalSeconds(Tail(intervals), unknown)

\* the instants of [start, end) one minute apart, from start on
minutesOf(start, end) == {start + 60 * j : j \in 0..(minuteSteps(start, end) - 1)}

-----------------------------------------------------------------------------
-----------------------------------------------------------------------------
\* C12: for minute-aligned from < to, the open duration of GetOpenDuration is
\* the summed length of the intervals of GetOpenIntervals with Unknown false,
\* and the unknown duration that of the intervals with Unknown true.
C12_DurationEqualsIntervals ==
    (/\ op = "GetOpenDuration" /\ arg.from < arg.to
     /\ arg.from % 60 = 0 /\ arg.to % 60 = 0) =>
        /\ res.open = intervalSeconds(GetOpenIntervals(oh, arg.from, arg.to), FALSE)
        /\ res.unknown = intervalSeconds(GetOpenIntervals(oh, arg.from, arg.to), TRUE)

-----------------------------------------------------------------------------
\* C13: at every minute of every interval GetOpenIntervals returns, the state
\* is open or unknown, GetUnknown is the interval's Unknown flag and
\* GetComment is the interval's Comment.
C13_IntervalsHomogeneous ==
    op = "GetOpenIntervals" =>
        \A k \in 1..Len(res) :
            \A m \in minutesOf(res[k].Start, res[k].End) :
                /\ GetState(oh, m) \/ GetUnknown(oh, m)
                /\ GetUnknown(oh, m) = res[k].Unknown
                /\ GetComment(oh, m) = res[k].Comment

-----------------------------------------------------------------------------
\* C14: the intervals of GetOpenIntervals(from, to) are in ascending order and
\* do not overlap, each has from <= Start < End <= to, and there is none when
\* from >= to.
C14_IntervalsOrdered ==
    op = "GetOpenIntervals" =>
        /\ arg.from >= arg.to => res = <<>>
        /\ \A k \in 1..Len(res) :
              /\ arg.from <= res[k].Start
              /\ res[k].Start < res[k].End
              /\ res[k].End <= arg.to
        /\ \A k \in 1..(Len(res) - 1) : res[k].End <= res[k + 1].Start

\* two intervals have been returned, the second ending with the range
C14_Witness ==
    /\ op = "GetOpenIntervals"
    /\ Len(res) >= 2
    /\ res[Len(res)].End = arg.to
    /\ res[1].End < res[2].Start

-----------------------------------------------------------------------------
\* C15: a value whose only rule has no selector dimension and no time ranges
\* (the parsed form of "24/7") has GetState true at every instant, whatever
\* holiday and school-holiday oracles are attached.
C15_AlwaysOpenEverywhere ==
    (op = "GetState" /\ oh.rules = <<ZeroRule>> /\ oh.fallbackGroups = <<>>) =>
        res = TRUE

\* the instant seven days after t
weekLater(t) == AddDays(t, 7)

\* the month clause of r is exactly "Jan-Dec"
fullYearClause(r) ==
    r.monthStart = 1 /\ r.monthEnd = 12 /\ r.dayStart = 0 /\ r.dayEnd = 0

\* r has none of the clauses that tie it to a date
weekdayAndTimeOnly(r) ==
    /\ r.yearStart = 0
    /\ r.weekConstraints = <<>>
    /\ r.weekdayConstraints = <<>>
    /\ ~r.isPH /\ ~r.isSH /\ ~r.isEaster
    /\ r.monthStart = 0 \/ fullYearClause(r)

\* every rule of the value, primary or fallback
rulesOf(o) ==
    {o.rules[i] : i \in 1..Len(o.rules)}
        \cup UNION {{o.fallbackGroups[g][i] : i \in 1..Len(o.fallbackGroups[g])} :
                       g \in 1..Len(o.fallbackGroups)}

-----------------------------------------------------------------------------
\* C16: when IsWeekStable() is true, GetState, GetUnknown and GetComment at an
\* instant equal those seven days later, whatever oracles are attached.
C16_WeekStableRepeatsWeekly ==
    IsWeekStable(oh) =>
        /\ op = "GetState" => res = GetState(oh, weekLater(arg))
        /\ op = "GetUnknown" => res = GetUnknown(oh, weekLater(arg))
        /\ op = "GetComment" => res = GetComment(oh, weekLater(arg))

-----------------------------------------------------------------------------
\* C17: IsWeekStable() is true exactly when no rule, primary or fallback, has
\* a year, week-number or ordinal-weekday clause, a PH, SH or Easter flag, or
\* a month clause other than the full-year "Jan-Dec".
C17_WeekStableIffNoDateClause ==
    op = "IsWeekStable" =>
        (res <=> \A r \in rulesOf(oh) : weekdayAndTimeOnly(r))

\* the minutes of the reference week at which the answers of o or of other
\* can change
weekMinutes(o, other) ==
    {DateAt(d, m) : d \in 0..6, m \in scanMinutes(o) \cup scanMinutes(other)}

\* every end of at most 02:00 of a midnight-spanning fixed range written as
\* an hour past 24:00
extendedRange(tr) ==
    IF tr.startVar = "" /\ tr.endVar = "" /\ tr.end <= tr.start /\ tr.end <= 120
    THEN [tr EXCEPT !.end = tr.end + 1440] ELSE tr

extendedRule(r) ==
    [r EXCEPT !.timeRanges = [k \in 1..Len(r.timeRanges) |-> extendedRange(r.timeRanges[k])]]

extendedNotation(o) ==
    [o EXCEPT !.rules = [i \in 1..Len(o.rules) |-> extendedRule(o.rules[i])]]

-----------------------------------------------------------------------------
\* C18: when a.IsEqualTo(b) is true for week-stable a and b, then GetState,
\* GetUnknown and GetComment of a and b agree at every minute of the week;
\* IsEqualTo(nil) is false.
C18_EqualMeansSameAnswers ==
    op = "IsEqualTo" =>
        /\ arg = Nil => res = FALSE
        /\ (arg # Nil /\ res = TRUE /\ IsWeekStable(oh) /\ IsWeekStable(arg)) =>
              \A m \in weekMinutes(oh, arg) : answersAt(oh, m) = answersAt(arg, m)

-----------------------------------------------------------------------------
\* C19: for every value V that New accepts, New(V.PrettifyValue()) succeeds
\* and the value it yields is equal to V under IsEqualTo.
C19_PrettifyRoundTrip ==
    op = "PrettifyValue" =>
        /\ parsePrinted(res) # ParseError
        /\ IsEqualTo(parsePrinted(res), oh)

-----------------------------------------------------------------------------
\* C20: writing the end of every midnight-spanning range as an hour past
\* 24:00 (22:00-02:00 as 22:00-26:00) leaves GetState unchanged.
C20_ExtendedHoursEquivalent ==
    op = "GetState" => res = GetState(extendedNotation(oh), arg)

\* a value that is one open rule with a weekday bitmap and one fixed
\* midnight-spanning range
nightValue(o) ==
    /\ Len(o.rules) = 1 /\ o.fallbackGroups = <<>>
    /\ o.rules[1].weekdays # <<>> /\ o.rules[1].state = StateOpen
    /\ ~o.rules[1].isPH /\ ~o.rules[1].isSH
    /\ Len(o.rules[1].timeRanges) = 1
    /\ o.rules[1].timeRanges[1].startVar = "" /\ o.rules[1].timeRanges[1].endVar = ""
    /\ o.rules[1].timeRanges[1].end <= o.rules[1].timeRanges[1].start

\* the day of t is reported by neither oracle
ordinaryDay(o, t) ==
    /\ ~(o.holidayChecker.set /\ IsHoliday(o.holidayChecker, t))
    /\ ~(o.schoolHolidayChecker.set /\ IsSchoolHoliday(o.schoolHolidayChecker, t))

\* minute m of a day with weekday wd lies in [s, 24:00) of a listed day or
\* in [00:00, e) of the day after a listed day
spanOpen(r, wd, m) ==
    \/ wdBit(r, wd) /\ m >= r.timeRanges[1].start
    \/ wdBit(r, (wd + 6) % 7) /\ m < r.timeRanges[1].end

-----------------------------------------------------------------------------
\* C21: a midnight-spanning range s-e of a rule with a weekday bitmap is open
\* on a listed weekday from s to 24:00 and on the day after a listed weekday
\* from 00:00 until e (exclusive), listed or not, and at no other minute; so
\* not before e on a listed weekday whose previous day is not listed.
C21_NightTailOnNextDay ==
    (op = "GetState" /\ nightValue(oh) /\ ordinaryDay(oh, arg)) =>
        \A m \in 0..1439 :
            GetState(oh, DateAt(DayIndex(arg), m)) = spanOpen(oh.rules[1], Weekday(arg), m)

\* GetState answered open after midnight on a day the rule does not list
C21_Witness ==
    /\ op = "GetState" /\ nightValue(oh) /\ ordinaryDay(oh, arg)
    /\ ~wdBit(oh.rules[1], Weekday(arg))
    /\ MinuteOfDay(arg) < oh.rules[1].timeRanges[1].end
    /\ res = TRUE

\* the time words of a text
timeWordsOf(text) ==
    UNION {{text.parts[i].times[k] : k \in 1..Len(text.parts[i].times)} :
              i \in 1..Len(text.parts)}

\* the week words of a text
weekWordsOf(text) ==
    UNION {{text.parts[i].weeks[k] : k \in 1..Len(text.parts[i].weeks)} :
              i \in 1..Len(text.parts)}

\* a written hour above 26, a written minute above 59, or a week number
\* outside 1..53
outOfRange(text) ==
    \/ \E w \in timeWordsOf(text) :
          w.startH > 26 \/ w.endH > 26 \/ w.startM > 59 \/ w.endM > 59
    \/ \E w \in weekWordsOf(text) :
          w.weekStart < 1 \/ w.weekStart > 53 \/ w.weekEnd < 1 \/ w.weekEnd > 53

\* the start and end minutes stored in a value
storedMinutes(o) ==
    UNION {{r.timeRanges[k].start : k \in 1..Len(r.timeRanges)}
              \cup {r.timeRanges[k].end : k \in 1..Len(r.timeRanges)} : r \in rulesOf(o)}

-----------------------------------------------------------------------------
\* C22: New returns an error for every text with an hour above 26 or a
\* minute above 59 in any time-range form, or a week number outside 1..53;
\* every minute stored in an accepted value lies in 0..1560.
C22_OutOfRangeRejected ==
    op = "Parse" =>
        /\ outOfRange(arg) => res = ParseError
        /\ res # ParseError => \A m \in storedMinutes(res) : m >= 0 /\ m <= 1560

\* two goroutines touched the same slot and one of them wrote it; with no
\* coordination between them nothing orders the two accesses
dataRace ==
    \E a \in Threads : \E b \in Threads \ {a} :
        calls[a].wrote \cap (calls[b].wrote \cup calls[b].read) # {}

-----------------------------------------------------------------------------
\* C23: queries may run in parallel on one shared value: no query writes
\* to memory reachable from the value, so parallel queries are free of data
\* races.
C23_QueriesOnlyRead ==
    /\ \A th \in Threads : calls[th].wrote = {}
    /\ ~dataRace

\* the first time range of rule i spans midnight
spansFirst(o, i) ==
    /\ o.rules[i].weekdays # <<>>
    /\ Len(o.rules[i].timeRanges) > 0
    /\ o.rules[i].timeRanges[1].end <= o.rules[i].timeRanges[1].start

\* the pairs <<i, j>> of rules of one comma group: i lists yesterday and
\* ends after midnight at E_prev, j lists today and ends at E_today > E_prev
continuationPairs(o, wd) ==
    {p \in (1..Len(o.rules)) \X (1..Len(o.rules)) :
        /\ o.rules[p[1]].ruleGroup > 0
        /\ o.rules[p[1]].ruleGroup = o.rules[p[2]].ruleGroup
        /\ spansFirst(o, p[1]) /\ wdBit(o.rules[p[1]], (wd + 6) % 7)
        /\ spansFirst(o, p[2]) /\ wdBit(o.rules[p[2]], wd)
        /\ o.rules[p[2]].timeRanges[1].end > o.rules[p[1]].timeRanges[1].end}

\* E_today of a pair
borrowedEnd(o, p) == o.rules[p[2]].timeRanges[1].end

\* no primary rule matches t on selector and time
noRuleMatches(o, t) ==
    \A i \in 1..Len(o.rules) : ~matchesWithOH(o.rules[i], t, o.holidayChecker, o)

\* the answer at one minute of a day with continuation pairs
continuationAt(o, t, pairs) ==
    /\ (\E p \in pairs : MinuteOfDay(t) < borrowedEnd(o, p)) => GetState(o, t)
    /\ ((\A p \in pairs : MinuteOfDay(t) >= borrowedEnd(o, p)) /\ noRuleMatches(o, t))
          => ~GetState(o, t)

-----------------------------------------------------------------------------
\* C24: when a rule of a comma group lists yesterday with a midnight-spanning
\* first range ending at E_prev and a rule of the same group lists today
\* with a post-midnight end E_today > E_prev, GetState is true at every
\* minute before E_today of today, and the continuation opens no minute from
\* E_today on.
C24_ContinuationUntilBorrowedEnd ==
    (op = "GetState" /\ oh.fallbackGroups = <<>>
        /\ continuationPairs(oh, Weekday(arg)) # {}) =>
        \A m \in 0..1439 :
            continuationAt(oh, DateAt(DayIndex(arg), m), continuationPairs(oh, Weekday(arg)))

\* GetState answered open between E_prev and E_today
C24_Witness ==
    /\ op = "GetState" /\ res = TRUE
    /\ \E p \in continuationPairs(oh, Weekday(arg)) :
          /\ MinuteOfDay(arg) >= oh.rules[p[1]].timeRanges[1].end
          /\ MinuteOfDay(arg) < borrowedEnd(oh, p)

\* rule i matches t on selector and time, every later rule is a sibling of
\* its comma group that does not, and one of them matches the date
siblingCase(o, t, i) ==
    /\ o.rules[i].ruleGroup > 0
    /\ o.rules[i].state # StateUnknown
    /\ matchesWithOH(o.rules[i], t, o.holidayChecker, o)
    /\ \A j \in (i + 1)..Len(o.rules) :
          /\ o.rules[j].ruleGroup = o.rules[i].ruleGroup
          /\ ~matchesWithOH(o.rules[j], t, o.holidayChecker, o)
    /\ \E j \in (i + 1)..Len(o.rules) :
          matchesSelectorWithOH(o.rules[j], t, o.holidayChecker, o)

\* the earlier rule decides at t
earlierRuleDecides(o, t) ==
    \A i \in 1..Len(o.rules) :
        siblingCase(o, t, i) => (GetState(o, t) <=> o.rules[i].state = StateOpen)

-----------------------------------------------------------------------------
\* C25: rules split from one expression at a top-level comma never override
\* one another: when a sibling's selector matches the date but its time
\* ranges do not contain the instant, the earlier rule that matches on
\* selector and time decides the state.
C25_SiblingsDoNotOverride ==
    op = "GetState" =>
        \A m \in 0..1439 : earlierRuleDecides(oh, DateAt(DayIndex(arg), m))

-----------------------------------------------------------------------------
\* C26: an Advance call that returns a non-zero time moves the date of the
\* iterator strictly forward to that time, at which GetState differs from
\* the state at the date before the call; a call that returns the zero time
\* leaves the date unchanged.
C26_AdvanceMovesToChange ==
    op = "Advance" =>
        /\ res # ZeroTime =>
              /\ it.current = res
              /\ res > arg
              /\ GetState(oh, res) # GetState(oh, arg)
        /\ res = ZeroTime => it.current = arg

\* an Advance from a date reached by an earlier Advance crossed midnight
C26_Witness ==
    /\ op = "Advance" /\ res # ZeroTime /\ it.current = res
    /\ DayIndex(res) > DayIndex(arg)
    /\ MinuteOfDay(arg) \notin SampleMinutes

-----------------------------------------------------------------------------
\* the day loops stay inside their horizon: GetNextChange looks at no day
\* past the 35th after t, GetNextChangeWithMaxDate at no day past the one
\* after maxdate nor past the safety limit
dayLoopsBounded ==
    /\ (scan.query = "GetNextChange" /\ scan.pc = "day") => scan.day <= ScanDays + 1
    /\ (scan.query = "GetNextChangeWithMaxDate" /\ scan.pc = "day") =>
           /\ scan.day <= SafetyDays + 1
           /\ scan.day > 1 => DateAt(DayIndex(scan.t) + scan.day - 1, 0) <= scan.limit

\* an iteration of the loop of GetOpenIntervals that does not return
intervalIteration == scan.pc = "loop" /\ scan'.pc = "loop"

-----------------------------------------------------------------------------
\* C28: GetState and GetUnknown are never both true for the same value and
\* instant; checked at every minute of the day asked about.
C28_OpenAndUnknownDisjoint ==
    op \in {"GetState", "GetUnknown"} =>
        \A m \in 0..1439 :
            ~(GetState(oh, DateAt(DayIndex(arg), m)) /\ GetUnknown(oh, DateAt(DayIndex(arg), m)))

-----------------------------------------------------------------------------
\* the time range tr, its variable times resolved for the day of t, read
\* as [start, end), or as [start, 24:00) and [00:00, end) when it spans
\* midnight or is written past 24:00, contains the minute of day of t
rangeCovers(o, tr, t) ==
    LET start == IF tr.startVar # ""
                 THEN resolveVariableTime(o, t, tr.startVar, tr.startOffset)
                 ELSE tr.start
        end == IF tr.endVar # ""
               THEN resolveVariableTime(o, t, tr.endVar, tr.endOffset)
               ELSE tr.end
        m == MinuteOfDay(t)
    IN IF end > 1440 THEN m >= start \/ m < end - 1440
       ELSE IF end <= start THEN m >= start \/ m < end
       ELSE start <= m /\ m < end

\* r is an Open rule without time ranges or with one covering the minute
openRuleCovers(o, r, t) ==
    /\ r.state = StateOpen
    /\ \/ Len(r.timeRanges) = 0
       \/ \E k \in 1..Len(r.timeRanges) : rangeCovers(o, r.timeRanges[k], t)

\* some Open rule, primary or fallback, covers the minute of t
someOpenRuleCovers(o, t) ==
    \/ \E i \in 1..Len(o.rules) : openRuleCovers(o, o.rules[i], t)
    \/ \E g \in 1..Len(o.fallbackGroups) :
          \E i \in 1..Len(o.fallbackGroups[g]) :
              openRuleCovers(o, o.fallbackGroups[g][i], t)

\* C29: GetState never reports open at a minute that no rule covers: when
\* GetState is true, some Open rule has no time ranges or a time range that
\* contains the minute of day; checked at every minute of the day asked
\* about.
C29_OpenOnlyWhereCovered ==
    op = "GetState" =>
        \A m \in 0..1439 :
            GetState(oh, DateAt(DayIndex(arg), m)) =>
                someOpenRuleCovers(oh, DateAt(DayIndex(arg), m))

-----------------------------------------------------------------------------
=============================================================================
